---------------------------- MODULE Spec2Model ----------------------------
(***************************************************************************)
(* Model of the matching / scoring engine of the resume rater              *)
(* (src/app/components/resume_matcher.py), of the analysis of a job        *)
(* description (job_description.py), of the skills of a resume             *)
(* (resume_upload.py) and of src/app/utils/text_analysis.py.               *)
(*                                                                         *)
(* The scorer is a set of functions without state of their own; the state  *)
(* of the model is the last call: which function ran (op), the arguments   *)
(* it was given (args) and the value it returned (ret).  Every function of *)
(* the source is an operator computed as the code computes it and one      *)
(* action calls it on arguments drawn from bounded sets.  locals holds the *)
(* local variables of calculate_education_match at its return, which the   *)
(* result does not carry (its degree and field scores).  The requests that *)
(* run text_analysis.extract_skills at the same time are modelled step by  *)
(* step: heap holds the list objects of the program, the shared ALL_SKILLS *)
(* among them, and requests the local variables and the position of each   *)
(* request.                                                                *)
(*                                                                         *)
(* Numbers.  Python floats are modelled as exact rationals <<n, d>> in     *)
(* lowest terms with d > 0.  round(x, k) is modelled by Round: the nearest *)
(* multiple of 10^-k, and on an exact tie either neighbour (parameter t),  *)
(* because the direction of a tie depends on the binary representation of  *)
(* the operand (round(0.125, 2) = 0.12 but round(0.025, 2) = 0.03).        *)
(***************************************************************************)
EXTENDS Integers, Sequences, FiniteSets, TLC

VARIABLES op, args, ret, locals, heap, requests

vars == <<op, args, ret, locals, heap, requests>>

-----------------------------------------------------------------------------
(* Rational arithmetic                                                     *)

RECURSIVE GCD(_, _)
GCD(a, b) == IF b = 0 THEN a ELSE GCD(b, a % b)

Abs(n) == IF n < 0 THEN -n ELSE n

\* n/d in lowest terms, denominator positive (d # 0).
Rat(n, d) ==
    LET g == GCD(Abs(n), Abs(d))
        s == IF d < 0 THEN -1 ELSE 1
    IN  <<(s * n) \div g, (s * d) \div g>>

Num(n) == <<n, 1>>
Zero == Num(0)
One == Num(1)

RAdd(x, y) == Rat(x[1] * y[2] + y[1] * x[2], x[2] * y[2])
RSub(x, y) == Rat(x[1] * y[2] - y[1] * x[2], x[2] * y[2])
RMul(x, y) == Rat(x[1] * y[1], x[2] * y[2])
RDiv(x, y) == Rat(x[1] * y[2], x[2] * y[1])
RLt(x, y) == x[1] * y[2] < y[1] * x[2]
RLe(x, y) == x[1] * y[2] <= y[1] * x[2]
RMin(x, y) == IF RLt(y, x) THEN y ELSE x
RMax(x, y) == IF RLt(x, y) THEN y ELSE x

Pow10(k) == IF k = 0 THEN 1 ELSE IF k = 1 THEN 10 ELSE 100

\* floor(n/d) for d > 0 (\div of the Integers module rounds down).
Floor(n, d) == n \div d

\* round(x, k): x rounded to k decimals; t \in {0, 1} decides an exact tie.
Round(x, k, t) ==
    LET n == x[1] * Pow10(k)
        d == x[2]
        f == Floor(n, d)
        twice == 2 * (n - f * d)
        q == IF twice < d THEN f
             ELSE IF twice > d THEN f + 1
             ELSE f + t
    IN  Rat(q, Pow10(k))

TieBreak == {0, 1}

-----------------------------------------------------------------------------
(* Strings.  A skill is a string; lower() and the substring test `a in b`  *)
(* of Python are tabulated over the strings of the model.                  *)

SkillNames == {"python", "Python", "sql", "nosql"}

\* str.lower()
Lower(s) == IF s = "Python" THEN "python" ELSE s

\* Python's `a in b` on two lower-case skill strings: a occurs in b.
IsSubstring(a, b) == a = b \/ (a = "sql" /\ b = "nosql")

Range(s) == {s[i] : i \in DOMAIN s}

\* Lists without repeated elements, of length at most n.
ListsOf(S, n) ==
    {s \in UNION {[1..k -> S] : k \in 0..n} :
        \A i, j \in DOMAIN s : s[i] = s[j] => i = j}

-----------------------------------------------------------------------------
(* Configuration: a dict from option names to numbers; config.get(k, d).   *)

DictGet(config, k, default) ==
    IF k \in DOMAIN config THEN config[k] ELSE default

-----------------------------------------------------------------------------
(* calculate_skill_match                                                   *)

\* line 140: the skill, lower-cased, equals or occurs inside a resume skill
SkillMatched(skill, resume_skills_lower) ==
    \/ Lower(skill) \in resume_skills_lower
    \/ \E rs \in resume_skills_lower : IsSubstring(Lower(skill), rs)

\* lines 146-147: priority skills are looked up by equality only
PriorityMatched(skill, resume_skills_lower) ==
    Lower(skill) \in resume_skills_lower

\* A variant of SkillMissing: missing skills found by equality only, as the
\* priority skills are.
SkillMissing_exact(skill, resume_skills_lower) ==
    Lower(skill) \notin resume_skills_lower

\* line 142: the else branch of the test of line 140
SkillMissing(skill, resume_skills_lower) ==
    ~SkillMatched(skill, resume_skills_lower)

\* A variant of CapScore: no cap.
CapScore_none(skill_score) == skill_score

\* line 171: the score is capped at 1.0
CapScore(skill_score) == RMin(One, skill_score)

calculate_skill_match(resume_skills, job_skills, priority_skills, config, t) ==
    IF job_skills = <<>> THEN
        [score |-> One,
         matched_skills |-> <<>>, missing_skills |-> <<>>,
         priority_matched |-> <<>>, priority_missing |-> <<>>,
         match_percentage |-> Num(100)]
    ELSE
    LET resume_skills_lower == {Lower(s) : s \in resume_skills}
        matched_skills ==
            SelectSeq(job_skills, LAMBDA s : SkillMatched(s, resume_skills_lower))
        missing_skills ==
            SelectSeq(job_skills, LAMBDA s : SkillMissing(s, resume_skills_lower))
        priority_matched ==
            SelectSeq(priority_skills,
                      LAMBDA s : PriorityMatched(s, resume_skills_lower))
        priority_missing ==
            SelectSeq(priority_skills,
                      LAMBDA s : ~PriorityMatched(s, resume_skills_lower))
        total_skills == Len(job_skills)
        matched_count == Len(matched_skills)
        match_percentage == RMul(Rat(matched_count, total_skills), Num(100))
        priority_bonus == DictGet(config, "priority_skill_bonus", Num(2))
        priority_match_score ==
            IF priority_skills # <<>>
            THEN RMul(Rat(Len(priority_matched), Len(priority_skills)),
                      priority_bonus)
            ELSE Zero
        base_score == Rat(matched_count, total_skills)
        priority_weight == Rat(Len(priority_skills), total_skills)
        skill_score ==
            RAdd(RMul(base_score, RSub(One, priority_weight)),
                 RMul(priority_match_score, priority_weight))
    IN  [score |-> Round(CapScore(skill_score), 2, t),
         matched_skills |-> matched_skills,
         missing_skills |-> missing_skills,
         priority_matched |-> priority_matched,
         priority_missing |-> priority_missing,
         match_percentage |-> Round(match_percentage, 1, t)]

-----------------------------------------------------------------------------
(* Experience requirement text.  A text is a sequence of tokens, a number  *)
(* <<"num", n>> or a word <<"w", s>>; white space separates tokens, except *)
(* that the word "+" is written directly after the token before it and the *)
(* word " +" is a plus sign with white space before it.                    *)

N(n) == <<"num", n>>
W(s) == <<"w", s>>
IsNum(tok) == tok[1] = "num"
IsWord(tok, s) == tok[1] = "w" /\ tok[2] = s

\* Is the token at position i of txt (if any) the word s / a number?
WordAt(txt, i, s) == i \in DOMAIN txt /\ IsWord(txt[i], s)
NumAt(txt, i) == i \in DOMAIN txt /\ IsNum(txt[i])

\* The five year_patterns of extract_years_from_experience, as a match of
\* the pattern starting at token i (the first group is then txt[i][2], or
\* txt[i + 1][2] for the two patterns that start with a phrase).
\*   r'(\d+)\+?\s*years?'
YearPattern1(txt, i) ==
    NumAt(txt, i) /\ (\/ WordAt(txt, i + 1, "years")
                      \/ WordAt(txt, i + 1, "+") /\ WordAt(txt, i + 2, "years"))
\*   r'(\d+)\s*\+\s*years?'
YearPattern2(txt, i) ==
    NumAt(txt, i) /\ (WordAt(txt, i + 1, "+") \/ WordAt(txt, i + 1, " +"))
                  /\ WordAt(txt, i + 2, "years")
\*   r'minimum\s*of\s*(\d+)\s*years?'
YearPattern3(txt, i) ==
    WordAt(txt, i, "minimum of") /\ NumAt(txt, i + 1)
                                 /\ WordAt(txt, i + 2, "years")
\*   r'at\s*least\s*(\d+)\s*years?'
YearPattern4(txt, i) ==
    WordAt(txt, i, "at least") /\ NumAt(txt, i + 1)
                               /\ WordAt(txt, i + 2, "years")
\*   r'(\d+)[-\s](\d+)\s*years?'
YearPattern5(txt, i) ==
    \/ NumAt(txt, i) /\ WordAt(txt, i + 1, "-") /\ NumAt(txt, i + 2)
                     /\ WordAt(txt, i + 3, "years")
    \/ NumAt(txt, i) /\ NumAt(txt, i + 1) /\ WordAt(txt, i + 2, "years")

YearPattern(p, txt, i) ==
    CASE p = 1 -> YearPattern1(txt, i)
      [] p = 2 -> YearPattern2(txt, i)
      [] p = 3 -> YearPattern3(txt, i)
      [] p = 4 -> YearPattern4(txt, i)
      [] OTHER -> YearPattern5(txt, i)

\* re.search: the leftmost position where pattern p matches, 0 if none.
Search(p, txt) ==
    IF \E i \in DOMAIN txt : YearPattern(p, txt, i)
    THEN CHOOSE i \in DOMAIN txt :
            /\ YearPattern(p, txt, i)
            /\ \A j \in DOMAIN txt : YearPattern(p, txt, j) => i <= j
    ELSE 0

\* int(match.group(1)) of a match of pattern p at position i
Group1(p, txt, i) == IF p \in {3, 4} THEN txt[i + 1][2] ELSE txt[i][2]

\* exp_phrases, in the order of the dict, with the years each stands for
exp_phrases ==
    << <<"entry level", 0>>, <<"junior", 1>>, <<"mid-level", 3>>,
       <<"mid level", 3>>, <<"intermediate", 3>>, <<"senior", 5>>,
       <<"experienced", 4>>, <<"principal", 8>>, <<"lead", 6>>,
       <<"manager", 5>>, <<"director", 8>>, <<"executive", 10>> >>

\* seniority_levels, in the order of the dict, with their scores
seniority_levels ==
    << <<"entry", Rat(2, 10)>>, <<"junior", Rat(4, 10)>>, <<"mid", Rat(6, 10)>>,
       <<"senior", Rat(8, 10)>>, <<"lead", Rat(9, 10)>>, <<"principal", One>>,
       <<"staff", Rat(9, 10)>>, <<"manager", Rat(9, 10)>>, <<"director", One>>,
       <<"vp", One>>, <<"head", One>>, <<"chief", One>> >>

\* `phrase in s.lower()` for the words and titles of the model: the
\* lower-cased word or title s contains phrase.
Contains(s, phrase) ==
    CASE s = "senior" -> phrase = "senior"
      [] s = "Senior Level" -> phrase = "senior"
      [] s = "Entry Level" -> phrase \in {"entry level", "entry"}
      [] s = "Mid Level" -> phrase \in {"mid level", "mid"}
      [] s = "entry" -> phrase = "entry"
      [] s = "staff" -> phrase = "staff"
      [] s = "Senior Engineer" -> phrase = "senior"
      [] s = "Chief Architect" -> phrase = "chief"
      [] OTHER -> FALSE

\* `phrase in text.lower()`: no phrase of the two tables spans two tokens
\* of the model.
TextContains(txt, phrase) ==
    \E i \in DOMAIN txt : txt[i][1] = "w" /\ Contains(txt[i][2], phrase)

-----------------------------------------------------------------------------
(* Optional values: None is the empty tuple, any other value v is <<v>>.   *)

None == <<>>
Some(v) == <<v>>

-----------------------------------------------------------------------------
(* extract_years_from_experience                                           *)
(*                                                                         *)
(* The job's experience requirement is a record with a field type:         *)
(*   "str"   a string, field text;                                         *)
(*   "dict"  a dict with the set of keys `keys`; description and level are *)
(*           its string values under these keys, years is Some(n) when the *)
(*           value under 'years' converts with int() and None when not;    *)
(*   "list"  a list of len items;                                          *)
(*   "none"  None.                                                         *)

\* The years found in a string: the first pattern that matches, else the
\* first phrase of exp_phrases the text contains, else None.
YearsInText(txt) ==
    LET P == {p \in 1..5 : Search(p, txt) # 0}
        K == {k \in DOMAIN exp_phrases : TextContains(txt, exp_phrases[k][1])}
    IN  IF P # {}
        THEN LET p == CHOOSE q \in P : \A r \in P : q <= r
             IN  Some(Group1(p, txt, Search(p, txt)))
        ELSE IF K # {}
        THEN LET k == CHOOSE q \in K : \A r \in K : q <= r
             IN  Some(exp_phrases[k][2])
        ELSE None

extract_years_from_experience(experience_text) ==
    CASE experience_text.type = "str" -> YearsInText(experience_text.text)
      [] experience_text.type = "dict" ->
            IF "description" \in experience_text.keys
            THEN YearsInText(experience_text.description)
            ELSE IF "years" \in experience_text.keys
            THEN experience_text.years
            ELSE YearsInText(IF "level" \in experience_text.keys
                             THEN experience_text.level ELSE <<>>)
      [] OTHER -> None

\* `not job_experience`
Falsy(job_experience) ==
    CASE job_experience.type = "str" -> job_experience.text = <<>>
      [] job_experience.type = "dict" -> job_experience.keys = {}
      [] job_experience.type = "list" -> job_experience.len = 0
      [] OTHER -> TRUE

-----------------------------------------------------------------------------
(* calculate_total_experience_years                                        *)
(*                                                                         *)
(* An entry of the resume's experience list is a record with a field kind: *)
(*   "years"     a dict with a 'years' value (a number) and a title;       *)
(*   "duration"  a dict without 'years' whose duration reads               *)
(*               "<dy> years <dm> months";                                 *)
(*   "dates"     a dict with only start_date and end_date;                 *)
(*   "other"     not a dict.                                               *)

\* extract_year_from_date: the year in a date string, 0 when there is none
\* (the code returns None, which is false like 0).
extract_year_from_date(date_str) ==
    CASE date_str = "2019" -> 2019
      [] date_str = "Mar 2022" -> 2022
      [] OTHER -> 0

EntryYears(entry) ==
    CASE entry.kind = "years" -> entry.years
      [] entry.kind = "duration" -> RAdd(Num(entry.dy), Rat(entry.dm, 12))
      [] entry.kind = "dates" ->
            LET start_year == extract_year_from_date(entry.start_date)
                end_year == extract_year_from_date(entry.end_date)
            IN  IF start_year # 0 /\ end_year # 0
                THEN RMax(Zero, Num(end_year - start_year))
                ELSE Zero
      [] OTHER -> Zero

RECURSIVE SumYears(_)
SumYears(entries) ==
    IF entries = <<>> THEN Zero
    ELSE RAdd(EntryYears(Head(entries)), SumYears(Tail(entries)))

calculate_total_experience_years(experience_entries, t) ==
    IF experience_entries = <<>> THEN Zero
    ELSE Round(SumYears(experience_entries), 1, t)

\* lines 663-671: the list the function goes through when its argument is
\* a value of any type, a record with a field type: "list" (items, a list
\* of entries), "dict" (entry, the dict as an entry of the list), "str"
\* (text) or "other" (a number).
ExperienceEntriesOf(experience_entries) ==
    CASE experience_entries.type = "list" -> experience_entries.items
      [] experience_entries.type = "dict" -> <<experience_entries.entry>>
      [] OTHER -> <<>>

-----------------------------------------------------------------------------
(* match_seniority_level                                                   *)

\* The score of the first level of seniority_levels found in the text,
\* 0.5 when there is none.
JobSeniority(job_exp_lower) ==
    LET K == {k \in DOMAIN seniority_levels :
                TextContains(job_exp_lower, seniority_levels[k][1])}
    IN  IF K = {} THEN Rat(1, 2)
        ELSE seniority_levels[CHOOSE q \in K : \A r \in K : q <= r][2]

YearsSeniority(total_years) ==
    IF RLe(Num(10), total_years) THEN One
    ELSE IF RLe(Num(8), total_years) THEN Rat(9, 10)
    ELSE IF RLe(Num(5), total_years) THEN Rat(8, 10)
    ELSE IF RLe(Num(3), total_years) THEN Rat(6, 10)
    ELSE IF RLe(Num(1), total_years) THEN Rat(4, 10)
    ELSE Rat(2, 10)

\* The largest score of a level found in the title of a dict entry, with
\* the seniority the years give as the starting value.
RECURSIVE TitleSeniority(_, _)
TitleSeniority(entries, acc) ==
    IF entries = <<>> THEN acc
    ELSE LET exp == Head(entries)
             S == IF exp.kind = "other" THEN {}
                  ELSE {seniority_levels[k][2] : k \in
                          {j \in DOMAIN seniority_levels :
                              Contains(exp.title, seniority_levels[j][1])}}
             best == IF \E x \in S : RLt(acc, x)
                     THEN CHOOSE x \in S : \A y \in S : RLe(y, x)
                     ELSE acc
         IN  TitleSeniority(Tail(entries), best)

match_seniority_level(resume_experience, job_experience, t) ==
    LET job_exp_lower == IF job_experience.type = "str"
                         THEN job_experience.text ELSE <<>>
        job_seniority == JobSeniority(job_exp_lower)
        total_years == calculate_total_experience_years(resume_experience, t)
        resume_seniority ==
            TitleSeniority(resume_experience, YearsSeniority(total_years))
    IN  IF RLe(job_seniority, resume_seniority) THEN One
        ELSE RDiv(resume_seniority, job_seniority)

-----------------------------------------------------------------------------
(* calculate_experience_match                                              *)

\* A variant of PartialCredit: the share as a percentage.
PartialCredit_percent(resume_years, job_years) ==
    RMul(RDiv(resume_years, job_years), Num(100))

\* line 231: partial credit, the share of the required years
PartialCredit(resume_years, job_years) == RDiv(resume_years, job_years)

calculate_experience_match(resume_experience, job_experience, config, t) ==
    IF Falsy(job_experience) THEN
        [score |-> One, years_required |-> None, years_matched |-> None,
         match_percentage |-> Num(100)]
    ELSE
    LET job_years == extract_years_from_experience(job_experience)
    IN  IF job_years = None THEN
            LET seniority_score ==
                    match_seniority_level(resume_experience, job_experience, t)
            IN  [score |-> seniority_score,
                 years_required |-> None, years_matched |-> None,
                 match_percentage |->
                     Round(RMul(seniority_score, Num(100)), 1, t)]
        ELSE
            LET resume_years ==
                    calculate_total_experience_years(resume_experience, t)
                J == Num(job_years[1])
                full == job_years[1] <= 0 \/ RLe(J, resume_years)
                match_score == IF full THEN One ELSE PartialCredit(resume_years, J)
                match_percentage ==
                    IF full THEN Num(100)
                    ELSE RMul(PartialCredit(resume_years, J), Num(100))
            IN  [score |-> Round(match_score, 2, t),
                 years_required |-> Some(job_years[1]),
                 years_matched |-> Some(resume_years),
                 match_percentage |-> Round(match_percentage, 1, t)]

-----------------------------------------------------------------------------
(* Education.  The strings of the model and what the extractors of the     *)
(* scorer find in them.  The extractors return list(set(...)): the order   *)
(* of their result is not fixed by the code, the model keeps the set.      *)

\* extract_degree_requirements on one requirement string: the degrees one
\* of whose patterns occurs in the lower-cased string ("ma" occurs in
\* "mathematics", so that string also asks for a master).
DegreesRequiredIn(req) ==
    CASE req = "Bachelor's degree in Computer Science" -> {"bachelor"}
      [] req = "Master's degree" -> {"master"}
      [] req = "PhD in Mathematics" -> {"doctorate", "master"}
      [] req = "Associate degree" -> {"associate"}
      [] req = "Doctorate" -> {"doctorate"}
      [] OTHER -> {}

\* extract_field_requirements on one requirement string: the common_fields
\* that occur in the lower-cased string.
FieldsRequiredIn(req) ==
    CASE req = "Bachelor's degree in Computer Science" -> {"computer science"}
      [] req = "PhD in Mathematics" -> {"mathematics"}
      [] req = "Degree in Statistics" -> {"statistics"}
      [] OTHER -> {}

\* The if/elif chain of extract_degrees_from_resume on one degree string:
\* the degree it appends, as a set of at most one element ('b.a' occurs
\* in "m.b.a.", so that string counts as a bachelor; "mba" matches nothing).
DegreeOf(degree) ==
    CASE degree \in {"Bachelor of Science", "M.B.A."} -> {"bachelor"}
      [] degree \in {"Master", "Master in Data Science"} -> {"master"}
      [] degree = "PhD" -> {"doctorate"}
      [] degree = "Associate" -> {"associate"}
      [] OTHER -> {}

\* extract_fields_from_resume on one entry: the lower-cased field if not
\* empty, and what follows "in " in the degree text.
FieldLower(field) ==
    CASE field = "Computer Science" -> "computer science"
      [] field = "Software Engineering" -> "software engineering"
      [] field = "Art History" -> "art history"
      [] field = "Science" -> "science"
      [] OTHER -> field

FieldsOf(entry) ==
    (IF entry.field # "" THEN {FieldLower(entry.field)} ELSE {})
    \cup (IF entry.degree = "Master in Data Science"
          THEN {"data science"} ELSE {})

\* The job's education requirement is a record with a field type: "list"
\* (items, a list of strings), "str" (text), "dict" (the set keys of its
\* keys) or "none".  The resume's education is a list of entries, records
\* with kind "dict" (degree, field) or "other" (not a dict).

extract_degree_requirements(education_requirements) ==
    CASE education_requirements.type = "str" ->
            DegreesRequiredIn(education_requirements.text)
      [] education_requirements.type = "list" ->
            UNION {DegreesRequiredIn(req) :
                    req \in Range(education_requirements.items)}
      [] OTHER -> {}

extract_field_requirements(education_requirements) ==
    CASE education_requirements.type = "str" ->
            FieldsRequiredIn(education_requirements.text)
      [] education_requirements.type = "list" ->
            UNION {FieldsRequiredIn(req) :
                    req \in Range(education_requirements.items)}
      [] OTHER -> {}

extract_degrees_from_resume(education_entries) ==
    UNION {DegreeOf(entry.degree) :
            entry \in {e \in Range(education_entries) : e.kind = "dict"}}

extract_fields_from_resume(education_entries) ==
    UNION {FieldsOf(entry) :
            entry \in {e \in Range(education_entries) : e.kind = "dict"}}

\* lines 790-795 and 818-823: the list the two functions above go through
\* when their argument is a value of any type, a record with a field type:
\* "list" (items, a list of entries), "str" (text, which becomes the value
\* of the one key of one entry), "dict" (entry) or "other" (a number).
EducationEntriesOf(education_entries, key) ==
    CASE education_entries.type = "list" -> education_entries.items
      [] education_entries.type = "str" ->
            << [kind |-> "dict",
                degree |-> IF key = "degree" THEN education_entries.text
                           ELSE "",
                field |-> IF key = "field" THEN education_entries.text
                          ELSE ""] >>
      [] OTHER -> <<>>

\* A variant of degree_hierarchy: bachelor and master exchanged.
degree_hierarchy_swapped(degree) ==
    CASE degree = "associate" -> 1
      [] degree = "bachelor" -> 3
      [] degree = "master" -> 2
      [] degree = "doctorate" -> 4
      [] OTHER -> 0

\* degree_hierarchy.get(degree, 0)
degree_hierarchy(degree) ==
    CASE degree = "associate" -> 1
      [] degree = "bachelor" -> 2
      [] degree = "master" -> 3
      [] degree = "doctorate" -> 4
      [] OTHER -> 0

\* A variant of calculate_degree_match_score: without the test for a degree
\* higher than required.
calculate_degree_match_score_noHigher(resume_degree, required_degree) ==
    LET resume_level == degree_hierarchy(resume_degree)
        required_level == degree_hierarchy(required_degree)
    IN  IF resume_degree = required_degree THEN One
        ELSE IF resume_level > 0 /\ required_level > 0
        THEN Rat(resume_level, required_level)
        ELSE Zero

calculate_degree_match_score(resume_degree, required_degree) ==
    LET resume_level == degree_hierarchy(resume_degree)
        required_level == degree_hierarchy(required_degree)
    IN  IF resume_degree = required_degree THEN One
        ELSE IF resume_level > required_level THEN One
        ELSE IF resume_level > 0 /\ required_level > 0
        THEN Rat(resume_level, required_level)
        ELSE Zero

\* related_fields[a][b], None when the table has no such entry
related_fields(a, b) ==
    CASE a = "computer science" ->
            (CASE b = "software engineering" -> Some(Rat(9, 10))
               [] b = "information technology" -> Some(Rat(8, 10))
               [] b = "data science" -> Some(Rat(8, 10))
               [] b = "information systems" -> Some(Rat(7, 10))
               [] b = "mathematics" -> Some(Rat(6, 10))
               [] b = "engineering" -> Some(Rat(6, 10))
               [] OTHER -> None)
      [] a = "data science" ->
            (CASE b = "statistics" -> Some(Rat(9, 10))
               [] b = "mathematics" -> Some(Rat(8, 10))
               [] b = "computer science" -> Some(Rat(8, 10))
               [] b = "analytics" -> Some(Rat(9, 10))
               [] b = "machine learning" -> Some(Rat(9, 10))
               [] OTHER -> None)
      [] a = "business" ->
            (CASE b = "finance" -> Some(Rat(8, 10))
               [] b = "marketing" -> Some(Rat(7, 10))
               [] b = "economics" -> Some(Rat(8, 10))
               [] b = "management" -> Some(Rat(9, 10))
               [] b = "accounting" -> Some(Rat(7, 10))
               [] b = "mba" -> Some(Rat(9, 10))
               [] OTHER -> None)
      [] a = "engineering" ->
            (CASE b = "mechanical engineering" -> Some(Rat(9, 10))
               [] b = "electrical engineering" -> Some(Rat(8, 10))
               [] b = "civil engineering" -> Some(Rat(7, 10))
               [] b = "computer engineering" -> Some(Rat(8, 10))
               [] b = "software engineering" -> Some(Rat(7, 10))
               [] OTHER -> None)
      [] OTHER -> None

\* `a in b` on the field strings of the model
FieldIsSubstring(a, b) ==
    a = b \/ (a = "science" /\ b \in {"computer science", "data science"})

\* A variant of field_similarity: the table is looked up in one direction.
field_similarity_oneWay(resume_field, required_field) ==
    IF resume_field = required_field THEN One
    ELSE IF related_fields(required_field, resume_field) # None
    THEN related_fields(required_field, resume_field)[1]
    ELSE IF \/ FieldIsSubstring(required_field, resume_field)
            \/ FieldIsSubstring(resume_field, required_field)
    THEN Rat(7, 10)
    ELSE Rat(2, 10)

\* lines 872-928
field_similarity(resume_field, required_field) ==
    IF resume_field = required_field THEN One
    ELSE IF related_fields(required_field, resume_field) # None
    THEN related_fields(required_field, resume_field)[1]
    ELSE IF related_fields(resume_field, required_field) # None
    THEN related_fields(resume_field, required_field)[1]
    ELSE IF \/ FieldIsSubstring(required_field, resume_field)
            \/ FieldIsSubstring(resume_field, required_field)
    THEN Rat(7, 10)
    ELSE Rat(2, 10)

\* A variant of FalsyEducation: only None counts as no requirement.
FalsyEducation_noneOnly(job_education) == job_education.type = "none"

\* `not job_education`
FalsyEducation(job_education) ==
    CASE job_education.type = "str" -> job_education.text = ""
      [] job_education.type = "list" -> job_education.items = <<>>
      [] job_education.type = "dict" -> job_education.keys = {}
      [] OTHER -> TRUE

\* The local variables of calculate_education_match when it returns from
\* its second return statement.
EducationLocals(resume_education, job_education) ==
    LET required_degrees == extract_degree_requirements(job_education)
        required_fields == extract_field_requirements(job_education)
        resume_degrees == extract_degrees_from_resume(resume_education)
        resume_fields == extract_fields_from_resume(resume_education)
        credits == {calculate_degree_match_score(res_degree, req_degree) :
                        res_degree \in resume_degrees,
                        req_degree \in required_degrees}
        positive == {c \in credits : RLt(Zero, c)}
        matched_degrees ==
            {req_degree \in required_degrees :
                \E res_degree \in resume_degrees :
                    RLt(Zero, calculate_degree_match_score(res_degree,
                                                          req_degree))}
        matched_fields ==
            {req_field \in required_fields :
                \E res_field \in resume_fields :
                    RLe(Rat(7, 10), field_similarity(res_field, req_field))}
    IN  [required_degrees |-> required_degrees,
         required_fields |-> required_fields,
         resume_degrees |-> resume_degrees,
         resume_fields |-> resume_fields,
         degree_match_score |->
            IF positive = {} THEN Zero
            ELSE CHOOSE c \in positive : \A x \in positive : RLe(x, c),
         matched_degrees |-> matched_degrees,
         field_match_score |->
            IF matched_fields # {} \/ required_fields = {} THEN One ELSE Zero,
         matched_fields |-> matched_fields]

\* A variant of CombinedScore: degree and field count the same.
CombinedScore_even(degree_match_score, field_match_score) ==
    RAdd(RMul(Rat(5, 10), degree_match_score),
         RMul(Rat(5, 10), field_match_score))

\* line 302: 70% degree type, 30% field of study
CombinedScore(degree_match_score, field_match_score) ==
    RAdd(RMul(Rat(7, 10), degree_match_score),
         RMul(Rat(3, 10), field_match_score))

calculate_education_match(resume_education, job_education, config, t) ==
    IF FalsyEducation(job_education) THEN
        [score |-> One, degree_required |-> None, degree_matched |-> TRUE,
         field_match |-> None, match_percentage |-> Num(100)]
    ELSE
    LET l == EducationLocals(resume_education, job_education)
        combined_score ==
            CombinedScore(l.degree_match_score, l.field_match_score)
    IN  [score |-> Round(combined_score, 2, t),
         degree_required |-> Some(l.required_degrees),
         degree_matched |-> IF l.required_degrees # {}
                            THEN l.matched_degrees # {} ELSE TRUE,
         field_match |-> Some(l.matched_fields),
         match_percentage |-> Round(RMul(combined_score, Num(100)), 1, t)]

-----------------------------------------------------------------------------
(* Resume text.  A text is the sequence of its sections (the pieces        *)
(* between blank lines), a section the sequence of its words; the empty    *)
(* string is the text without sections.  The words are skill names and     *)
(* "the"; \bkeyword\b matches a word exactly when both are equal once      *)
(* lower-cased.                                                            *)

RECURSIVE Flatten(_)
Flatten(sections) ==
    IF sections = <<>> THEN <<>>
    ELSE Head(sections) \o Flatten(Tail(sections))

\* len(re.findall(r'\b' + keyword.lower() + r'\b', text.lower()))
Occurrences(keyword, words) ==
    Len(SelectSeq(words, LAMBDA w : Lower(w) = Lower(keyword)))

\* A variant of SumOccurrences: every copy of a keyword in the list counts.
RECURSIVE SumOccurrences_list(_, _)
SumOccurrences_list(keywords, words) ==
    IF keywords = <<>> THEN 0
    ELSE Occurrences(Head(keywords), words)
            + SumOccurrences_list(Tail(keywords), words)

\* lines 357-365: sum(keyword_count.values()); keyword_count is a dict, in
\* which a keyword given twice has one entry.
RECURSIVE SumOccurrences(_, _)
SumOccurrences(keywords, words) ==
    IF keywords = <<>> THEN 0
    ELSE (IF Head(keywords) \in Range(Tail(keywords)) THEN 0
          ELSE Occurrences(Head(keywords), words))
            + SumOccurrences(Tail(keywords), words)

\* A variant of DensityCredit: no cap.
DensityCredit_uncapped(density) == RMul(density, Num(50))

\* line 385: min(density * 50, 1)
DensityCredit(density) == RMin(RMul(density, Num(50)), One)

calculate_keyword_density(resume_text, job_keywords, t) ==
    LET words == Flatten(resume_text)
        total_words == Len(words)
    IN  IF resume_text = <<>> \/ job_keywords = <<>> \/ total_words = 0
        THEN [score |-> Zero, density |-> Zero, distribution |-> Zero]
        ELSE
        LET total_keywords == SumOccurrences(job_keywords, words)
            density == Rat(total_keywords, total_words)
            sections_with_keywords ==
                Len(SelectSeq(resume_text,
                    LAMBDA section : \E k \in Range(job_keywords) :
                                        Occurrences(k, section) > 0))
            distribution == Rat(sections_with_keywords, Len(resume_text))
            score == RAdd(RMul(Rat(7, 10), DensityCredit(density)),
                          RMul(Rat(3, 10), distribution))
        IN  [score |-> Round(score, 2, t),
             density |-> Round(RMul(density, Num(100)), 2, t),
             distribution |-> Round(RMul(distribution, Num(100)), 2, t)]

-----------------------------------------------------------------------------
(* calculate_content_similarity.  The TF-IDF vectorizer and the cosine     *)
(* similarity are a library: its outcome is a parameter, a record that    *)
(* either says the library raised or holds the list of the similarities   *)
(* of the sections, each in [0, 1].                                       *)

RECURSIVE SumRat(_)
SumRat(xs) == IF xs = <<>> THEN Zero ELSE RAdd(Head(xs), SumRat(Tail(xs)))

MaxRat(xs) == CHOOSE x \in Range(xs) : \A y \in Range(xs) : RLe(y, x)

calculate_content_similarity(resume_text, responsibilities, similarities, t) ==
    IF resume_text = <<>> \/ responsibilities = <<>>
    THEN [score |-> Zero, similarity |-> Zero]
    ELSE IF similarities.raised
    THEN [score |-> Zero, similarity |-> Zero, error |-> TRUE]
    ELSE
    LET max_similarity == MaxRat(similarities.values)
        avg_similarity == RDiv(SumRat(similarities.values),
                               Num(Len(similarities.values)))
        overall_score == RAdd(RMul(Rat(7, 10), max_similarity),
                              RMul(Rat(3, 10), avg_similarity))
    IN  [score |-> Round(overall_score, 2, t),
         similarity |-> Round(RMul(max_similarity, Num(100)), 1, t)]

-----------------------------------------------------------------------------
(* generate_improvement_suggestions.  A suggestion is named by the rule    *)
(* that produced it.                                                       *)

\* The truth value of an optional integer and of an optional number.
TruthyInt(opt) == opt # None /\ opt[1] # 0
TruthyNum(opt) == opt # None /\ opt[1] # Zero

generate_improvement_suggestions(resume_data, job_analysis, skill_score, experience_score, education_score) ==
    LET skills ==
            IF skill_score.missing_skills = <<>> THEN <<>>
            ELSE IF Len(skill_score.missing_skills) <= 3
            THEN <<"Add missing skills">>
            ELSE (IF skill_score.priority_missing # <<>>
                  THEN <<"Focus on adding these priority skills">>
                  ELSE <<"Add key missing skills">>)
                 \o <<"Work on developing missing skills">>
        years_required == experience_score.years_required
        years_matched == experience_score.years_matched
        experience ==
            IF /\ TruthyInt(years_required) /\ TruthyNum(years_matched)
               /\ RLt(years_matched[1], Num(years_required[1]))
            THEN IF RLe(RSub(Num(years_required[1]), years_matched[1]), Num(2))
                 THEN <<"Highlight relevant projects">>
                 ELSE <<"Consider roles requiring less experience">>
            ELSE <<>>
        education ==
            IF /\ ~education_score.degree_matched
               /\ education_score.degree_required # None
               /\ education_score.degree_required[1] # {}
            THEN <<"The job requires">>
            ELSE <<>>
        specific == skills \o experience \o education
        general ==
            IF Len(specific) < 2
            THEN (IF /\ resume_data.raw_text # <<>>
                     /\ Len(Flatten(resume_data.raw_text)) < 300
                  THEN <<"Your resume appears brief">> ELSE <<>>)
                 \o (IF skill_score.matched_skills # <<>>
                     THEN <<"Optimize keyword placement">> ELSE <<>>)
                 \o <<"Quantify your achievements">>
            ELSE <<>>
    IN  specific \o general

-----------------------------------------------------------------------------
(* calculate_match_score                                                   *)

\* config = None stands for the default configuration.
NoConfig == [none |-> TRUE]

default_config ==
    [skill_weight |-> Rat(5, 10), priority_skill_bonus |-> Num(2),
     experience_weight |-> Rat(3, 10), education_weight |-> Rat(2, 10),
     skill_match_threshold |-> Rat(7, 10)]

\* A variant of Ranking: the percentile of the tier above for a strong match.
Ranking_shifted(overall_score) ==
    IF RLe(Rat(9, 10), overall_score) THEN <<"Excellent Match", "Top 10%">>
    ELSE IF RLe(Rat(8, 10), overall_score) THEN <<"Strong Match", "Top 10%">>
    ELSE IF RLe(Rat(7, 10), overall_score) THEN <<"Good Match", "Top 30%">>
    ELSE IF RLe(Rat(6, 10), overall_score) THEN <<"Fair Match", "Top 40%">>
    ELSE <<"Needs Improvement", "Below Average">>

\* lines 63-77
Ranking(overall_score) ==
    IF RLe(Rat(9, 10), overall_score) THEN <<"Excellent Match", "Top 10%">>
    ELSE IF RLe(Rat(8, 10), overall_score) THEN <<"Strong Match", "Top 20%">>
    ELSE IF RLe(Rat(7, 10), overall_score) THEN <<"Good Match", "Top 30%">>
    ELSE IF RLe(Rat(6, 10), overall_score) THEN <<"Fair Match", "Top 40%">>
    ELSE <<"Needs Improvement", "Below Average">>

\* A variant of OverallScore: not divided by the sum of the weights.
OverallScore_unnormalised(skill, experience, education, config, t) ==
    Round(RAdd(RAdd(RMul(skill, config.skill_weight),
                    RMul(experience, config.experience_weight)),
               RMul(education, config.education_weight)),
          2, t)

\* lines 53-60: the weighted average of the three scores, rounded
OverallScore(skill, experience, education, config, t) ==
    Round(RDiv(RAdd(RAdd(RMul(skill, config.skill_weight),
                         RMul(experience, config.experience_weight)),
                    RMul(education, config.education_weight)),
               RAdd(RAdd(config.skill_weight, config.experience_weight),
                    config.education_weight)),
          2, t)

WeightKeys == {"skill_weight", "experience_weight", "education_weight"}

\* lines 79-103: the report
MatchReport(resume_data, job_analysis, skill_score, experience_score, education_score, overall_score, similarities, t) ==
    [overall_score |-> overall_score,
     ranking |-> Ranking(overall_score)[1],
     percentile |-> Ranking(overall_score)[2],
     skill_analysis |-> skill_score,
     experience_analysis |-> experience_score,
     education_analysis |-> education_score,
     improvement_suggestions |->
        generate_improvement_suggestions(resume_data, job_analysis,
            skill_score, experience_score, education_score),
     keyword_density |->
        calculate_keyword_density(resume_data.raw_text,
                                  job_analysis.skills, t),
     content_similarity |->
        calculate_content_similarity(resume_data.raw_text,
            job_analysis.responsibilities, similarities, t)]

\* lines 52-103: from the three analyses to the report; a weight that is
\* missing raises KeyError, weights that sum to 0 raise ZeroDivisionError
ScoreAnalyses(resume_data, job_analysis, skill_score, experience_score, education_score, config, similarities, t) ==
    IF ~(WeightKeys \subseteq DOMAIN config)
    THEN [raised |-> "KeyError"]
    ELSE IF RAdd(RAdd(config.skill_weight, config.experience_weight),
                 config.education_weight) = Zero
    THEN [raised |-> "ZeroDivisionError"]
    ELSE MatchReport(resume_data, job_analysis, skill_score,
                     experience_score, education_score,
                     OverallScore(skill_score.score, experience_score.score,
                                  education_score.score, config, t),
                     similarities, t)

\* lines 38-50: the three analyses under the config in force
AnalyseWith(resume_data, job_analysis, config, similarities, t) ==
    ScoreAnalyses(resume_data, job_analysis,
        calculate_skill_match(resume_data.skills, job_analysis.skills,
                              job_analysis.priority_skills, config, t),
        calculate_experience_match(resume_data.experience,
                                   job_analysis.experience, config, t),
        calculate_education_match(resume_data.education,
                                  job_analysis.education, config, t),
        config, similarities, t)

calculate_match_score(resume_data, job_analysis, config_arg, similarities, t) ==
    AnalyseWith(resume_data, job_analysis,
                IF "none" \in DOMAIN config_arg
                THEN default_config ELSE config_arg,
                similarities, t)

-----------------------------------------------------------------------------
(* The text of a job description or of a resume.                           *)
(*                                                                         *)
(* A text is a sequence of paragraphs, joined by a blank line ("\n\n"); a  *)
(* paragraph is a sequence of chunks, joined by one space; a chunk is a    *)
(* string without white space.  What the string operations of the code do  *)
(* to a chunk is tabulated below for the chunks of the texts of the model: *)
(* "x500" stands for a chunk of 500 letters x.                             *)

\* The paragraphs of the model's texts
Paragraph ==
    [ headline |->
        <<"Senior", "Python", "developer">>,
      requirements |->
        <<"Requirements:", "strong", "python", "and", "SQL">>,
      responsibilities |->
        <<"Responsibilities:", "Build", "data", "services.", "Ship", "it.",
          "Test", "every", "day.", "Review", "code", "weekly!">>,
      duties |->
        <<"Duties", "-", "write", "code", "-", "troubleshooting", "-",
          "troubleshooting", "-", "troubleshooting", "-", "troubleshooting",
          "-", "troubleshooting", "-", "troubleshooting", "-",
          "troubleshooting", "-", "troubleshooting", "-", "troubleshooting",
          "-", "build", "APIs", "daily", "-", "fix", "bugs", "Benefits",
          "-", "free", "lunch", "*", "daily">>,
      education |->
        <<"Education:", "requires", "a", "master", "degree", "in", "Data",
          "Science">>,
      years |->
        <<"5+", "years", "experience", "with", "javascript,", "ideally",
          "a", "Bachelor">>,
      range |->
        <<"3-5", "years", "of", "java", "SQL", "and", "*python*">>,
      long |->
        <<"x500", "needs", "python">>,
      role |->
        <<"Junior", "lead">>,
      tenure |->
        <<"8", "years">> ]

\* chunk.lower()
LowerChunk(chunk) ==
    CASE chunk = "APIs" -> "apis"
      [] chunk = "Bachelor" -> "bachelor"
      [] chunk = "Benefits" -> "benefits"
      [] chunk = "Build" -> "build"
      [] chunk = "Data" -> "data"
      [] chunk = "Duties" -> "duties"
      [] chunk = "Education:" -> "education:"
      [] chunk = "Junior" -> "junior"
      [] chunk = "Python" -> "python"
      [] chunk = "Requirements:" -> "requirements:"
      [] chunk = "Responsibilities:" -> "responsibilities:"
      [] chunk = "Review" -> "review"
      [] chunk = "SQL" -> "sql"
      [] chunk = "Science" -> "science"
      [] chunk = "Senior" -> "senior"
      [] chunk = "Ship" -> "ship"
      [] chunk = "Test" -> "test"
      [] OTHER -> chunk

\* len(chunk)
ChunkLen(chunk) ==
    CASE chunk = "*" -> 1
      [] chunk = "*python*" -> 8
      [] chunk = "-" -> 1
      [] chunk = "3-5" -> 3
      [] chunk = "5+" -> 2
      [] chunk = "8" -> 1
      [] chunk = "APIs" -> 4
      [] chunk = "Bachelor" -> 8
      [] chunk = "Benefits" -> 8
      [] chunk = "Build" -> 5
      [] chunk = "Data" -> 4
      [] chunk = "Duties" -> 6
      [] chunk = "Education:" -> 10
      [] chunk = "Junior" -> 6
      [] chunk = "Python" -> 6
      [] chunk = "Requirements:" -> 13
      [] chunk = "Responsibilities:" -> 17
      [] chunk = "Review" -> 6
      [] chunk = "SQL" -> 3
      [] chunk = "Science" -> 7
      [] chunk = "Senior" -> 6
      [] chunk = "Ship" -> 4
      [] chunk = "Test" -> 4
      [] chunk = "a" -> 1
      [] chunk = "and" -> 3
      [] chunk = "apis" -> 4
      [] chunk = "bachelor" -> 8
      [] chunk = "benefits" -> 8
      [] chunk = "bugs" -> 4
      [] chunk = "build" -> 5
      [] chunk = "code" -> 4
      [] chunk = "daily" -> 5
      [] chunk = "data" -> 4
      [] chunk = "day." -> 4
      [] chunk = "degree" -> 6
      [] chunk = "developer" -> 9
      [] chunk = "duties" -> 6
      [] chunk = "education:" -> 10
      [] chunk = "every" -> 5
      [] chunk = "experience" -> 10
      [] chunk = "fix" -> 3
      [] chunk = "free" -> 4
      [] chunk = "ideally" -> 7
      [] chunk = "in" -> 2
      [] chunk = "it." -> 3
      [] chunk = "java" -> 4
      [] chunk = "javascript," -> 11
      [] chunk = "junior" -> 6
      [] chunk = "lead" -> 4
      [] chunk = "lunch" -> 5
      [] chunk = "master" -> 6
      [] chunk = "needs" -> 5
      [] chunk = "of" -> 2
      [] chunk = "python" -> 6
      [] chunk = "requirements:" -> 13
      [] chunk = "requires" -> 8
      [] chunk = "responsibilities:" -> 17
      [] chunk = "review" -> 6
      [] chunk = "science" -> 7
      [] chunk = "senior" -> 6
      [] chunk = "services." -> 9
      [] chunk = "ship" -> 4
      [] chunk = "sql" -> 3
      [] chunk = "strong" -> 6
      [] chunk = "test" -> 4
      [] chunk = "troubleshooting" -> 15
      [] chunk = "weekly!" -> 7
      [] chunk = "with" -> 4
      [] chunk = "write" -> 5
      [] chunk = "x500" -> 500
      [] chunk = "years" -> 5

\* The pairs <<part, chunk>> of a relation between a string without
\* white space and a chunk
ChunkRel ==
    [rel \in
       {"in", "startswith", "endswith", "word", "wordstart", "wordend",
        "marked", "markedstart", "markedend", "search", "fullmatch"} |->
    CASE rel = "in" ->   \* part in chunk
        { <<"API", "APIs">>, <<"SQL", "SQL">>, <<"ai", "daily">>,
          <<"api", "apis">>, <<"ba", "bachelor">>,
          <<"bachelor", "bachelor">>, <<"benefits", "benefits">>,
          <<"bi", "Responsibilities:">>, <<"bi", "responsibilities:">>,
          <<"data", "data">>, <<"degree", "degree">>,
          <<"duties", "duties">>, <<"education", "education:">>,
          <<"experience", "experience">>, <<"ideally", "ideally">>,
          <<"in", "in">>, <<"in", "troubleshooting">>, <<"java", "java">>,
          <<"java", "javascript,">>, <<"javascript", "javascript,">>,
          <<"junior", "junior">>, <<"lead", "lead">>, <<"ma", "master">>,
          <<"master", "master">>, <<"need", "needs">>,
          <<"python", "*python*">>, <<"python", "python">>,
          <<"require", "requirements:">>, <<"require", "requires">>,
          <<"requirements", "requirements:">>,
          <<"responsibilities", "responsibilities:">>,
          <<"science", "science">>, <<"senior", "senior">>,
          <<"sql", "sql">>, <<"strong", "strong">>, <<"with", "with">>,
          <<"year", "years">> }
      [] rel = "startswith" ->   \* chunk.startswith(part)
        { <<"API", "APIs">>, <<"SQL", "SQL">>, <<"api", "apis">>,
          <<"ba", "bachelor">>, <<"bachelor", "bachelor">>,
          <<"benefits", "benefits">>, <<"data", "data">>,
          <<"degree", "degree">>, <<"duties", "duties">>,
          <<"education", "education:">>, <<"experience", "experience">>,
          <<"ideally", "ideally">>, <<"in", "in">>, <<"java", "java">>,
          <<"java", "javascript,">>, <<"javascript", "javascript,">>,
          <<"junior", "junior">>, <<"lead", "lead">>, <<"ma", "master">>,
          <<"master", "master">>, <<"need", "needs">>,
          <<"python", "python">>, <<"require", "requirements:">>,
          <<"require", "requires">>, <<"requirements", "requirements:">>,
          <<"responsibilities", "responsibilities:">>,
          <<"science", "science">>, <<"senior", "senior">>,
          <<"sql", "sql">>, <<"strong", "strong">>, <<"with", "with">>,
          <<"year", "years">> }
      [] rel = "endswith" ->   \* chunk.endswith(part)
        { <<"SQL", "SQL">>, <<"bachelor", "bachelor">>,
          <<"benefits", "benefits">>, <<"data", "data">>,
          <<"degree", "degree">>, <<"duties", "duties">>,
          <<"experience", "experience">>, <<"ideally", "ideally">>,
          <<"in", "in">>, <<"java", "java">>, <<"junior", "junior">>,
          <<"lead", "lead">>, <<"master", "master">>,
          <<"python", "python">>, <<"science", "science">>,
          <<"senior", "senior">>, <<"sql", "sql">>, <<"strong", "strong">>,
          <<"with", "with">>, <<".", "day.">>, <<".", "it.">>,
          <<".", "services.">>, <<"!", "weekly!">> }
      [] rel = "word" ->   \* re.search(r'\b' + part + r'\b', chunk)
        { <<"SQL", "SQL">>, <<"bachelor", "bachelor">>,
          <<"benefits", "benefits">>, <<"data", "data">>,
          <<"degree", "degree">>, <<"duties", "duties">>,
          <<"education", "education:">>, <<"experience", "experience">>,
          <<"ideally", "ideally">>, <<"in", "in">>, <<"java", "java">>,
          <<"javascript", "javascript,">>, <<"junior", "junior">>,
          <<"lead", "lead">>, <<"master", "master">>,
          <<"python", "*python*">>, <<"python", "python">>,
          <<"requirements", "requirements:">>,
          <<"responsibilities", "responsibilities:">>,
          <<"science", "science">>, <<"senior", "senior">>,
          <<"sql", "sql">>, <<"strong", "strong">>, <<"with", "with">> }
      [] rel = "wordstart" ->   \* re.match(part + r'\b', chunk)
        { <<"SQL", "SQL">>, <<"bachelor", "bachelor">>,
          <<"benefits", "benefits">>, <<"data", "data">>,
          <<"degree", "degree">>, <<"duties", "duties">>,
          <<"education", "education:">>, <<"experience", "experience">>,
          <<"ideally", "ideally">>, <<"in", "in">>, <<"java", "java">>,
          <<"javascript", "javascript,">>, <<"junior", "junior">>,
          <<"lead", "lead">>, <<"master", "master">>,
          <<"python", "python">>, <<"requirements", "requirements:">>,
          <<"responsibilities", "responsibilities:">>,
          <<"science", "science">>, <<"senior", "senior">>,
          <<"sql", "sql">>, <<"strong", "strong">>, <<"with", "with">> }
      [] rel = "wordend" ->   \* re.search(r'\b' + part + '$', chunk)
        { <<"SQL", "SQL">>, <<"bachelor", "bachelor">>,
          <<"benefits", "benefits">>, <<"data", "data">>,
          <<"degree", "degree">>, <<"duties", "duties">>,
          <<"experience", "experience">>, <<"ideally", "ideally">>,
          <<"in", "in">>, <<"java", "java">>, <<"junior", "junior">>,
          <<"lead", "lead">>, <<"master", "master">>,
          <<"python", "python">>, <<"science", "science">>,
          <<"senior", "senior">>, <<"sql", "sql">>, <<"strong", "strong">>,
          <<"with", "with">> }
      [] rel = "marked" ->   \* re.search(r'[\*_]' + part + r'[\*_]', chunk)
        { <<"python", "*python*">> }
      [] rel = "markedstart" ->   \* re.match(part + r'[\*_]', chunk)
        {}
      [] rel = "markedend" ->   \* re.search(r'[\*_]' + part + '$', chunk)
        {}
      [] rel = "search" ->   \* re.search(part, chunk), the part a regular expression
        { <<"-", "-">>, <<"-", "3-5">>, <<"\\*", "*">>, <<"\\*", "*python*">> }
      [] rel = "fullmatch" ->   \* re.fullmatch(part, chunk)
        { <<"[A-Za-z,]+", "APIs">>, <<"[A-Za-z,]+", "Bachelor">>,
          <<"[A-Za-z,]+", "Benefits">>, <<"[A-Za-z,]+", "Build">>,
          <<"[A-Za-z,]+", "Data">>, <<"[A-Za-z,]+", "Duties">>,
          <<"[A-Za-z,]+", "Junior">>, <<"[A-Za-z,]+", "Python">>,
          <<"[A-Za-z,]+", "Review">>, <<"[A-Za-z,]+", "SQL">>,
          <<"[A-Za-z,]+", "Science">>, <<"[A-Za-z,]+", "Senior">>,
          <<"[A-Za-z,]+", "Ship">>, <<"[A-Za-z,]+", "Test">>,
          <<"[A-Za-z,]+", "a">>, <<"[A-Za-z,]+", "and">>,
          <<"[A-Za-z,]+", "apis">>, <<"[A-Za-z,]+", "bachelor">>,
          <<"[A-Za-z,]+", "benefits">>, <<"[A-Za-z,]+", "bugs">>,
          <<"[A-Za-z,]+", "build">>, <<"[A-Za-z,]+", "code">>,
          <<"[A-Za-z,]+", "daily">>, <<"[A-Za-z,]+", "data">>,
          <<"[A-Za-z,]+", "degree">>, <<"[A-Za-z,]+", "developer">>,
          <<"[A-Za-z,]+", "duties">>, <<"[A-Za-z,]+", "every">>,
          <<"[A-Za-z,]+", "experience">>, <<"[A-Za-z,]+", "fix">>,
          <<"[A-Za-z,]+", "free">>, <<"[A-Za-z,]+", "ideally">>,
          <<"[A-Za-z,]+", "in">>, <<"[A-Za-z,]+", "java">>,
          <<"[A-Za-z,]+", "javascript,">>, <<"[A-Za-z,]+", "junior">>,
          <<"[A-Za-z,]+", "lead">>, <<"[A-Za-z,]+", "lunch">>,
          <<"[A-Za-z,]+", "master">>, <<"[A-Za-z,]+", "needs">>,
          <<"[A-Za-z,]+", "of">>, <<"[A-Za-z,]+", "python">>,
          <<"[A-Za-z,]+", "requires">>, <<"[A-Za-z,]+", "review">>,
          <<"[A-Za-z,]+", "science">>, <<"[A-Za-z,]+", "senior">>,
          <<"[A-Za-z,]+", "ship">>, <<"[A-Za-z,]+", "sql">>,
          <<"[A-Za-z,]+", "strong">>, <<"[A-Za-z,]+", "test">>,
          <<"[A-Za-z,]+", "troubleshooting">>, <<"[A-Za-z,]+", "with">>,
          <<"[A-Za-z,]+", "write">>, <<"[A-Za-z,]+", "x500">>,
          <<"[A-Za-z,]+", "years">> }]

\* The numbers of a chunk that is a number of years ("5", "5+") or a range
\* ("3-5")
Numbers(chunk) ==
    CASE chunk = "3-5" -> <<3, 5>>
      [] chunk = "5+" -> <<5>>
      [] chunk = "8" -> <<8>>
      [] OTHER -> <<>>

\* phrase.split(' ') of the phrases of several parts
SeveralParts ==
    [phrase \in
       {"BIG DATA", "DATA SCIENCE", "DEEP LEARNING", "MACHINE LEARNING",
        "MOBILE DEVELOPMENT", "POWER BI", "RESPONSIVE DESIGN", "REST API",
        "big data", "data science", "deep learning", "high school",
        "job description", "machine learning", "mobile development",
        "must have", "nice to have", "power bi", "responsive design",
        "rest api", "secondary education", "skills required", "the role",
        "what we're looking for", "what you'll do", "what you'll need"} |->
    CASE phrase = "BIG DATA" -> <<"BIG", "DATA">>
      [] phrase = "DATA SCIENCE" -> <<"DATA", "SCIENCE">>
      [] phrase = "DEEP LEARNING" -> <<"DEEP", "LEARNING">>
      [] phrase = "MACHINE LEARNING" -> <<"MACHINE", "LEARNING">>
      [] phrase = "MOBILE DEVELOPMENT" -> <<"MOBILE", "DEVELOPMENT">>
      [] phrase = "POWER BI" -> <<"POWER", "BI">>
      [] phrase = "RESPONSIVE DESIGN" -> <<"RESPONSIVE", "DESIGN">>
      [] phrase = "REST API" -> <<"REST", "API">>
      [] phrase = "big data" -> <<"big", "data">>
      [] phrase = "data science" -> <<"data", "science">>
      [] phrase = "deep learning" -> <<"deep", "learning">>
      [] phrase = "high school" -> <<"high", "school">>
      [] phrase = "job description" -> <<"job", "description">>
      [] phrase = "machine learning" -> <<"machine", "learning">>
      [] phrase = "mobile development" -> <<"mobile", "development">>
      [] phrase = "must have" -> <<"must", "have">>
      [] phrase = "nice to have" -> <<"nice", "to", "have">>
      [] phrase = "power bi" -> <<"power", "bi">>
      [] phrase = "responsive design" -> <<"responsive", "design">>
      [] phrase = "rest api" -> <<"rest", "api">>
      [] phrase = "secondary education" -> <<"secondary", "education">>
      [] phrase = "skills required" -> <<"skills", "required">>
      [] phrase = "the role" -> <<"the", "role">>
      [] phrase = "what we're looking for" -> <<"what", "we're", "looking", "for">>
      [] phrase = "what you'll do" -> <<"what", "you'll", "do">>
      [] phrase = "what you'll need" -> <<"what", "you'll", "need">>]

\* skill.upper()
Upper(skill) ==
    CASE skill = "agile" -> "AGILE"
      [] skill = "ai" -> "AI"
      [] skill = "angular" -> "ANGULAR"
      [] skill = "asp.net" -> "ASP.NET"
      [] skill = "aws" -> "AWS"
      [] skill = "azure" -> "AZURE"
      [] skill = "babel" -> "BABEL"
      [] skill = "big data" -> "BIG DATA"
      [] skill = "bootstrap" -> "BOOTSTRAP"
      [] skill = "c#" -> "C#"
      [] skill = "c++" -> "C++"
      [] skill = "ci/cd" -> "CI/CD"
      [] skill = "css" -> "CSS"
      [] skill = "data science" -> "DATA SCIENCE"
      [] skill = "deep learning" -> "DEEP LEARNING"
      [] skill = "django" -> "DJANGO"
      [] skill = "docker" -> "DOCKER"
      [] skill = "elasticsearch" -> "ELASTICSEARCH"
      [] skill = "excel" -> "EXCEL"
      [] skill = "express.js" -> "EXPRESS.JS"
      [] skill = "flask" -> "FLASK"
      [] skill = "gcp" -> "GCP"
      [] skill = "git" -> "GIT"
      [] skill = "go" -> "GO"
      [] skill = "graphql" -> "GRAPHQL"
      [] skill = "hadoop" -> "HADOOP"
      [] skill = "html" -> "HTML"
      [] skill = "java" -> "JAVA"
      [] skill = "javascript" -> "JAVASCRIPT"
      [] skill = "jenkins" -> "JENKINS"
      [] skill = "jira" -> "JIRA"
      [] skill = "jquery" -> "JQUERY"
      [] skill = "kafka" -> "KAFKA"
      [] skill = "kotlin" -> "KOTLIN"
      [] skill = "kubernetes" -> "KUBERNETES"
      [] skill = "laravel" -> "LARAVEL"
      [] skill = "machine learning" -> "MACHINE LEARNING"
      [] skill = "mobile development" -> "MOBILE DEVELOPMENT"
      [] skill = "mongodb" -> "MONGODB"
      [] skill = "mysql" -> "MYSQL"
      [] skill = "node.js" -> "NODE.JS"
      [] skill = "nosql" -> "NOSQL"
      [] skill = "oracle" -> "ORACLE"
      [] skill = "php" -> "PHP"
      [] skill = "postgresql" -> "POSTGRESQL"
      [] skill = "power bi" -> "POWER BI"
      [] skill = "powerpoint" -> "POWERPOINT"
      [] skill = "python" -> "PYTHON"
      [] skill = "react" -> "REACT"
      [] skill = "redux" -> "REDUX"
      [] skill = "responsive design" -> "RESPONSIVE DESIGN"
      [] skill = "rest api" -> "REST API"
      [] skill = "ruby" -> "RUBY"
      [] skill = "rust" -> "RUST"
      [] skill = "sass" -> "SASS"
      [] skill = "scrum" -> "SCRUM"
      [] skill = "spark" -> "SPARK"
      [] skill = "spring" -> "SPRING"
      [] skill = "sql" -> "SQL"
      [] skill = "swift" -> "SWIFT"
      [] skill = "tableau" -> "TABLEAU"
      [] skill = "terraform" -> "TERRAFORM"
      [] skill = "typescript" -> "TYPESCRIPT"
      [] skill = "vue.js" -> "VUE.JS"
      [] skill = "webpack" -> "WEBPACK"
      [] skill = "word" -> "WORD"

\* text.lower()
LowerText(text) ==
    [p \in DOMAIN text |-> [i \in DOMAIN text[p] |-> LowerChunk(text[p][i])]]

\* The chunks of a text in a row, the chunk "\n\n" for each blank line
RECURSIVE Flat(_)
Flat(text) ==
    IF Len(text) = 0 THEN <<>>
    ELSE IF Len(text) = 1 THEN text[1]
    ELSE text[1] \o <<"\n\n">> \o Flat(Tail(text))

\* The phrase is found in the chunks from chunk i on: its parts lie in
\* consecutive chunks, each separated from the next by one space.  A phrase
\* of one part stands to its chunk in the relation `whole`; of a longer
\* phrase the first part stands to its chunk in the relation `first`, the
\* last part in the relation `last` and the parts between are their chunks.
Holds(rel, part, chunk) ==
    IF rel = "is" THEN part = chunk ELSE <<part, chunk>> \in ChunkRel[rel]

\* phrase.split(' ')
Parts(phrase) ==
    IF phrase \in DOMAIN SeveralParts THEN SeveralParts[phrase] ELSE <<phrase>>

PartsMatchAt(parts, chunks, i, whole, first, last) ==
    IF Len(parts) = 1 THEN Holds(whole, parts[1], chunks[i])
    ELSE /\ i + Len(parts) - 1 <= Len(chunks)
         /\ Holds(first, parts[1], chunks[i])
         /\ \A j \in 2..(Len(parts) - 1) : parts[j] = chunks[i + j - 1]
         /\ Holds(last, parts[Len(parts)], chunks[i + Len(parts) - 1])

PhraseMatchAt(phrase, chunks, i, whole, first, last) ==
    PartsMatchAt(Parts(phrase), chunks, i, whole, first, last)

\* chunks.find(phrase) > -1 at chunk i
PhraseAt(phrase, chunks, i) ==
    PhraseMatchAt(phrase, chunks, i, "in", "endswith", "startswith")

\* phrase in chunks
PhraseIn(phrase, chunks) == \E i \in DOMAIN chunks : PhraseAt(phrase, chunks, i)

\* chunks.count(phrase): no chunk of the model holds a part twice
CountPhrase(phrase, chunks) ==
    Cardinality({i \in DOMAIN chunks : PhraseAt(phrase, chunks, i)})

\* re.search(r'\b' + re.escape(phrase) + r'\b', chunks)
WordSearchParts(parts, chunks) ==
    \E i \in DOMAIN chunks :
        PartsMatchAt(parts, chunks, i, "word", "wordend", "wordstart")
WordSearch(phrase, chunks) == WordSearchParts(Parts(phrase), chunks)

-----------------------------------------------------------------------------
(* The skills of a text: job_description.extract_skills and                *)
(* resume_upload.extract_skills_from_text.                                 *)

\* job_description.py, lines 23-34
COMMON_TECH_SKILLS ==
 <<
    "python", "javascript", "java", "c++", "c#", "ruby", "php", "swift",
    "kotlin", "go", "rust", "typescript", "sql", "nosql", "mongodb",
    "postgresql", "mysql", "oracle", "react", "angular", "vue.js",
    "node.js", "express.js", "django", "flask", "spring", "asp.net",
    "laravel", "aws", "azure", "gcp", "docker", "kubernetes", "terraform",
    "jenkins", "git", "ci/cd", "agile", "scrum", "jira", "rest api",
    "graphql", "machine learning", "deep learning", "ai", "data science",
    "big data", "hadoop", "spark", "kafka", "elasticsearch", "tableau",
    "power bi", "excel", "powerpoint", "word", "html", "css", "bootstrap",
    "sass", "redux", "jquery", "webpack", "babel", "responsive design",
    "mobile development"
 >>

\* resume_upload.py, lines 34-45
COMMON_TECH_SKILLS_resume ==
 <<
    "python", "javascript", "java", "c++", "c#", "ruby", "php", "swift",
    "kotlin", "go", "rust", "typescript", "sql", "nosql", "mongodb",
    "postgresql", "mysql", "oracle", "react", "angular", "vue.js",
    "node.js", "express.js", "django", "flask", "spring", "asp.net",
    "laravel", "aws", "azure", "gcp", "docker", "kubernetes", "terraform",
    "jenkins", "git", "ci/cd", "agile", "scrum", "jira", "rest api",
    "graphql", "machine learning", "deep learning", "ai", "data science",
    "big data", "hadoop", "spark", "kafka", "elasticsearch", "tableau",
    "power bi", "excel", "powerpoint", "word", "html", "css", "bootstrap",
    "sass", "redux", "jquery", "webpack", "babel", "responsive design",
    "mobile development"
 >>

\* The skills of the vocabulary that the text holds as whole words, in the
\* order of the vocabulary (the loop of lines 131-136)
FoundSkills(vocabulary, text_lower) ==
    SelectSeq(vocabulary, LAMBDA skill : WordSearch(skill, text_lower))

\* The place of a string in the iteration order of a set of strings.  The
\* order follows the hashes of the strings, which change with the hash
\* seed of the run of the program: here the place of the skill in the
\* vocabulary times the seed, modulo the number of skills plus one (a prime).
HashRank(skill, seed) ==
    LET index == CHOOSE i \in DOMAIN COMMON_TECH_SKILLS :
                    COMMON_TECH_SKILLS[i] = skill
    IN  (index * seed) % (Len(COMMON_TECH_SKILLS) + 1)

\* list(set(extracted_skills)) under a hash seed
RECURSIVE ListOfSet(_, _)
ListOfSet(S, seed) ==
    IF S = {} THEN <<>>
    ELSE LET first == CHOOSE x \in S :
                        \A y \in S : HashRank(x, seed) <= HashRank(y, seed)
         IN  <<first>> \o ListOfSet(S \ {first}, seed)

\* job_description.extract_skills in a run of the program with this seed
extract_skills(text, seed) ==
    ListOfSet(Range(FoundSkills(COMMON_TECH_SKILLS, Flat(LowerText(text)))),
              seed)

\* resume_upload.extract_skills_from_text
extract_skills_from_text_substring(text) ==
    SelectSeq(COMMON_TECH_SKILLS_resume,
              LAMBDA skill : PhraseIn(skill, Flat(LowerText(text))))
extract_skills_from_text(text) ==
    FoundSkills(COMMON_TECH_SKILLS_resume, Flat(LowerText(text)))

-----------------------------------------------------------------------------
(* job_description.extract_priority_skills                                 *)

\* chunks[:n] of chunks without blank line: the chunks that end within the
\* first n characters (in the texts of the model no chunk reaches across
\* the 500th character)
RECURSIVE Prefix(_, _)
Prefix(chunks, n) ==
    IF chunks = <<>> \/ ChunkLen(chunks[1]) > n THEN <<>>
    ELSE <<chunks[1]>> \o Prefix(Tail(chunks), n - ChunkLen(chunks[1]) - 1)

\* line 164
first_paragraph_whole(text_lower) ==
    IF Len(text_lower) >= 2 THEN text_lower[1] ELSE Flat(text_lower)
first_paragraph(text_lower) ==
    IF Len(text_lower) >= 2 THEN text_lower[1]
    ELSE Prefix(Flat(text_lower), 500)

\* chunks.find(phrase), for a phrase that is in the chunks
Find(phrase, chunks) ==
    CHOOSE i \in DOMAIN chunks :
        /\ PhraseAt(phrase, chunks, i)
        /\ \A j \in 1..(i - 1) : ~PhraseAt(phrase, chunks, j)

\* chunks.find("\n\n", start), and len(chunks) + 1 for -1
FindBlankLine(chunks, start) ==
    IF \E j \in start..Len(chunks) : chunks[j] = "\n\n"
    THEN CHOOSE j \in start..Len(chunks) :
            /\ chunks[j] = "\n\n"
            /\ \A l \in start..(j - 1) : chunks[l] # "\n\n"
    ELSE Len(chunks) + 1

\* The section that the first of the keywords found in the text opens: from
\* the chunk that holds the keyword (in the texts of the model a keyword
\* stands at the start of its chunk) to the next blank line or the end.
\* The empty sequence when no keyword is found.
RECURSIVE Section(_, _)
Section(chunks, keywords) ==
    IF keywords = <<>> THEN <<>>
    ELSE IF PhraseIn(Head(keywords), chunks)
         THEN SubSeq(chunks, Find(Head(keywords), chunks),
                     FindBlankLine(chunks, Find(Head(keywords), chunks)) - 1)
         ELSE Section(chunks, Tail(keywords))

\* lines 168-176
req_patterns ==
    <<"requirements", "qualifications", "skills required", "what you'll need">>
requirements_section(text_lower) == Section(Flat(text_lower), req_patterns)

\* The chunk after chunk j and the white space \s+ that follows it
NextChunk(chunks, j) ==
    IF j + 1 <= Len(chunks) /\ chunks[j + 1] = "\n\n" THEN j + 2 ELSE j + 1

\* The skill stands in the chunks from the start of chunk i on
SkillStartsAt(skill, chunks, i) ==
    /\ i \in DOMAIN chunks
    /\ PhraseMatchAt(skill, chunks, i, "startswith", "is", "startswith")

\* lines 205-214: one of the emphasis_patterns is found
Emphasised(skill, chunks) ==
    \E j \in DOMAIN chunks :
        \/ /\ \E word \in {"strong", "excellent", "advanced", "expert"} :
                 Holds("endswith", word, chunks[j])
           /\ SkillStartsAt(skill, chunks, NextChunk(chunks, j))
        \/ /\ \E word \in {"experience", "proficient"} :
                 Holds("endswith", word, chunks[j])
           /\ NextChunk(chunks, j) \in DOMAIN chunks
           /\ chunks[NextChunk(chunks, j)] \in {"with", "in"}
           /\ SkillStartsAt(skill, chunks,
                            NextChunk(chunks, NextChunk(chunks, j)))

\* lines 179-214: the skill is appended to priority_skills
PriorityIndicated(skill, text) ==
    \/ CountPhrase(LowerChunk(skill), Flat(LowerText(text))) > 1
    \/ PhraseIn(LowerChunk(skill), first_paragraph(LowerText(text)))
    \/ PhraseIn(LowerChunk(skill), requirements_section(LowerText(text)))
    \/ WordSearch(Upper(skill), Flat(text))
    \/ \E i \in DOMAIN Flat(text) :
          PhraseMatchAt(LowerChunk(skill), Flat(LowerText(text)), i,
                        "marked", "markedend", "markedstart")
    \/ Emphasised(LowerChunk(skill), Flat(LowerText(text)))

\* lines 216-220: the list without the later copies of its items
RECURSIVE Unique(_)
Unique(list) ==
    IF list = <<>> THEN <<>>
    ELSE LET front == Unique(SubSeq(list, 1, Len(list) - 1))
             item == list[Len(list)]
         IN  IF item \in Range(front) THEN front ELSE Append(front, item)

extract_priority_skills(text, skills) ==
    IF skills = <<>> THEN <<>>
    ELSE Unique(SelectSeq(skills, LAMBDA skill : PriorityIndicated(skill, text)))

-----------------------------------------------------------------------------
(* job_description.extract_responsibilities.  An item of the result is the *)
(* sequence of its chunks, which single spaces join.                       *)

\* The first of the keywords that is in the chunks, None when none is
RECURSIVE FirstFound(_, _)
FirstFound(keywords, chunks) ==
    IF keywords = <<>> THEN None
    ELSE IF PhraseIn(Head(keywords), chunks) THEN Some(Head(keywords))
    ELSE FirstFound(Tail(keywords), chunks)

\* lines 425-447
resp_keywords ==
    <<"responsibilities", "duties", "what you'll do", "job description",
      "the role">>
next_headers ==
    <<"requirements", "qualifications", "skills", "what you'll need",
      "what we're looking for", "education", "benefits">>

\* The section from chunk `start`, where the keyword begins, to the next
\* blank line; without one, to the first of the next_headers found after
\* the keyword; without one, to the end.
SectionFrom(chunks, start, after) ==
    IF FindBlankLine(chunks, start) <= Len(chunks)
    THEN SubSeq(chunks, start, FindBlankLine(chunks, start) - 1)
    ELSE IF FirstFound(next_headers, after) # None
    THEN SubSeq(chunks, start,
                Len(chunks) - Len(after)
                    + Find(FirstFound(next_headers, after)[1], after) - 1)
    ELSE SubSeq(chunks, start, Len(chunks))

resp_section(chunks) ==
    IF FirstFound(resp_keywords, chunks) = None THEN <<>>
    ELSE LET keyword == FirstFound(resp_keywords, chunks)[1]
             start == Find(keyword, chunks)
         IN  SectionFrom(chunks, start,
                         SubSeq(chunks, start + Len(Parts(keyword)),
                                Len(chunks)))

\* lines 452-458: the delimiters of the bullet_patterns
bullet_patterns == <<"\\u2022", "-", "\\*", "\\d+\\.", "[A-Za-z\\)]\\)">>

\* The place of the first chunk that stands in the relation to the part,
\* len(chunks) + 1 when there is none
FirstChunk(chunks, rel, parts) ==
    IF \E i \in DOMAIN chunks : \E part \in parts : Holds(rel, part, chunks[i])
    THEN CHOOSE i \in DOMAIN chunks :
            /\ \E part \in parts : Holds(rel, part, chunks[i])
            /\ \A j \in 1..(i - 1) :
                  \A part \in parts : ~Holds(rel, part, chunks[j])
    ELSE Len(chunks) + 1

\* re.findall(pattern, resp_section, re.DOTALL): what follows each
\* delimiter, up to the next delimiter or the end (in the sections of the
\* model a delimiter is a chunk of its own)
RECURSIVE FindAll(_, _)
FindAll(delimiter, chunks) ==
    IF FirstChunk(chunks, "search", {delimiter}) > Len(chunks) THEN <<>>
    ELSE LET rest == SubSeq(chunks,
                            FirstChunk(chunks, "search", {delimiter}) + 1,
                            Len(chunks))
             next == FirstChunk(rest, "search", {delimiter})
         IN  <<SubSeq(rest, 1, next - 1)>>
                 \o FindAll(delimiter, SubSeq(rest, next, Len(rest)))

\* re.split(r'(?<=[.!?])\s+', resp_section)
RECURSIVE Sentences(_)
Sentences(chunks) ==
    IF chunks = <<>> THEN <<>>
    ELSE LET end == FirstChunk(chunks, "endswith", {".", "!", "?"})
         IN  IF end >= Len(chunks) THEN <<chunks>>
             ELSE <<SubSeq(chunks, 1, end)>>
                     \o Sentences(SubSeq(chunks, end + 1, Len(chunks)))

\* len(item) of the item with its chunks joined
RECURSIVE ItemLen(_)
ItemLen(item) ==
    IF item = <<>> THEN 0
    ELSE IF Len(item) = 1 THEN ChunkLen(item[1])
    ELSE ChunkLen(item[1]) + 1 + ItemLen(Tail(item))

\* A variant of BulletItems: an item of 10 characters is kept.
RECURSIVE BulletItems_atLeast10(_, _)
BulletItems_atLeast10(patterns, section) ==
    IF patterns = <<>> THEN <<>>
    ELSE IF FindAll(Head(patterns), section) # <<>>
    THEN SelectSeq(FindAll(Head(patterns), section),
                   LAMBDA item : ItemLen(item) >= 10)
    ELSE BulletItems_atLeast10(Tail(patterns), section)

\* lines 460-468: the items of the first bullet pattern that finds any
RECURSIVE BulletItems(_, _)
BulletItems(patterns, section) ==
    IF patterns = <<>> THEN <<>>
    ELSE IF FindAll(Head(patterns), section) # <<>>
    THEN SelectSeq(FindAll(Head(patterns), section),
                   LAMBDA item : ItemLen(item) > 10)
    ELSE BulletItems(Tail(patterns), section)

\* lines 470-476
SentenceItems(section) ==
    SelectSeq(Sentences(section), LAMBDA sentence : ItemLen(sentence) > 15)

\* line 478: responsibilities[:10]
Limit_none(responsibilities) == responsibilities
Limit(responsibilities) ==
    SubSeq(responsibilities, 1,
           IF Len(responsibilities) < 10 THEN Len(responsibilities) ELSE 10)

Responsibilities_of(section) ==
    IF section = <<>> THEN <<>>
    ELSE IF BulletItems(bullet_patterns, section) # <<>>
    THEN Limit(BulletItems(bullet_patterns, section))
    ELSE Limit(SentenceItems(section))

extract_responsibilities(text) ==
    Responsibilities_of(resp_section(Flat(LowerText(text))))

-----------------------------------------------------------------------------
(* job_description.extract_experience.  A number of years stands in one    *)
(* chunk ("5", "5+", "3-5") and the word years in the next one.  The       *)
(* description is written in the tokens of extract_years_from_experience.  *)

\* r'\s*years?' after chunk i
YearsAfter(chunks, i) ==
    /\ NextChunk(chunks, i) \in DOMAIN chunks
    /\ Holds("startswith", "year", chunks[NextChunk(chunks, i)])

\* years_patterns[0], a range, matches from chunk i on: "3-5 years" or
\* "3 to 5 years"
RangeAt(chunks, i) ==
    \/ Len(Numbers(chunks[i])) = 2 /\ YearsAfter(chunks, i)
    \/ /\ Len(Numbers(chunks[i])) = 1
       /\ NextChunk(chunks, NextChunk(chunks, i)) \in DOMAIN chunks
       /\ chunks[NextChunk(chunks, i)] \in {"to", "-"}
       /\ Len(Numbers(chunks[NextChunk(chunks, NextChunk(chunks, i))])) = 1
       /\ YearsAfter(chunks, NextChunk(chunks, NextChunk(chunks, i)))

\* years_patterns[1], one number, matches at the end of chunk i; the two
\* patterns after it match only where this one does
SingleAt(chunks, i) == Numbers(chunks[i]) # <<>> /\ YearsAfter(chunks, i)

\* years_patterns[p - 1] matches at chunk i
YearsAt(p, chunks, i) ==
    IF p = 1 THEN RangeAt(chunks, i) ELSE SingleAt(chunks, i)

\* re.search: the first place of a match of the pattern, 0 without one
FirstMatch(p, chunks) ==
    IF \E i \in DOMAIN chunks : YearsAt(p, chunks, i)
    THEN CHOOSE i \in DOMAIN chunks :
            /\ YearsAt(p, chunks, i)
            /\ \A j \in 1..(i - 1) : ~YearsAt(p, chunks, j)
    ELSE 0

\* lines 236-260: years
RequiredYears(chunks) ==
    LET r == FirstMatch(1, chunks)
        s == FirstMatch(2, chunks)
    IN  IF r # 0
        THEN [min |-> Numbers(chunks[r])[1],
              max |-> IF Len(Numbers(chunks[r])) = 2
                      THEN Some(Numbers(chunks[r])[2])
                      ELSE Some(Numbers(chunks[NextChunk(chunks,
                                           NextChunk(chunks, r))])[1])]
        ELSE IF s # 0
        THEN [min |-> Numbers(chunks[s])[Len(Numbers(chunks[s]))],
              max |-> None]
        ELSE [min |-> 0, max |-> None]

\* lines 273-283
level_keywords ==
    << <<"Entry Level",
         {"entry", "junior", "beginner", "trainee", "internship"}>>,
       <<"Mid Level", {"mid", "intermediate", "associate"}>>,
       <<"Senior Level", {"senior", "lead", "experienced", "advanced"}>>,
       <<"Expert Level",
         {"expert", "principal", "director", "head", "chief"}>> >>

\* A variant of RequiredLevel: the keywords decide only when the text names
\* no years.
RequiredLevel_yearsFirst(chunks, min) ==
    IF min = 0 /\ \E l \in DOMAIN level_keywords :
          \E keyword \in level_keywords[l][2] : PhraseIn(keyword, chunks)
    THEN level_keywords[
            CHOOSE l \in DOMAIN level_keywords :
                /\ \E keyword \in level_keywords[l][2] :
                      PhraseIn(keyword, chunks)
                /\ \A k \in 1..(l - 1) :
                      \A keyword \in level_keywords[k][2] :
                          ~PhraseIn(keyword, chunks)][1]
    ELSE IF min <= 1 THEN "Entry Level"
    ELSE IF min <= 3 THEN "Mid Level"
    ELSE IF min <= 5 THEN "Senior Level"
    ELSE "Expert Level"

\* lines 262-283: level
RequiredLevel(chunks, min) ==
    IF \E l \in DOMAIN level_keywords :
          \E keyword \in level_keywords[l][2] : PhraseIn(keyword, chunks)
    THEN level_keywords[
            CHOOSE l \in DOMAIN level_keywords :
                /\ \E keyword \in level_keywords[l][2] :
                      PhraseIn(keyword, chunks)
                /\ \A k \in 1..(l - 1) :
                      \A keyword \in level_keywords[k][2] :
                          ~PhraseIn(keyword, chunks)][1]
    ELSE IF min <= 1 THEN "Entry Level"
    ELSE IF min <= 3 THEN "Mid Level"
    ELSE IF min <= 5 THEN "Senior Level"
    ELSE "Expert Level"

\* lines 285-293: description, in the tokens of an experience requirement
\* text: f"{min}-{max} years ({level})", f"{min}+ years ({level})" or level
ExperienceDescription(years, level) ==
    IF years.min > 0
    THEN IF years.max # None /\ years.max # Some(0)
         THEN <<N(years.min), W("-"), N(years.max[1]), W("years"), W(level)>>
         ELSE <<N(years.min), W("+"), W("years"), W(level)>>
    ELSE <<W(level)>>

\* lines 295-299: the dict, in the form in which the scorer reads a dict
ExperienceRecord(years, level) ==
    [type |-> "dict", keys |-> {"years", "level", "description"},
     years |-> years, level |-> level,
     description |-> ExperienceDescription(years, level)]

extract_experience(text) ==
    ExperienceRecord(RequiredYears(Flat(LowerText(text))),
                     RequiredLevel(Flat(LowerText(text)),
                                   RequiredYears(Flat(LowerText(text))).min))

-----------------------------------------------------------------------------
(* job_description.extract_education.  The result is a dict, here a record *)
(* of type "dict" with the set of its keys: required and preferred are     *)
(* None or Some(level), fields is the list of the fields of study, each    *)
(* the chunks of its words.  The description, a text for display made of   *)
(* these three, is present as a key only.                                  *)

\* lines 316-322, in the order of the dict
degree_patterns ==
    << <<"high_school", <<"high school", "ged", "secondary education">> >>,
       <<"associate", <<"associate", "associate's", "aa", "a.a", "a.s">> >>,
       <<"bachelor", <<"bachelor", "bachelor's", "bachelors", "ba", "b.a",
                       "bs", "b.s", "undergraduate">> >>,
       <<"master", <<"master", "master's", "masters", "ma", "m.a", "ms",
                     "m.s", "mba", "graduate">> >>,
       <<"phd", <<"phd", "ph.d", "doctorate", "doctoral">> >> >>

edu_keywords == <<"education", "qualification", "degree", "academic">>

\* lines 329-343: from the first keyword found to the next blank line,
\* without one the next 300 characters; the whole text without a keyword
edu_section(chunks) ==
    IF FirstFound(edu_keywords, chunks) = None THEN chunks
    ELSE LET start == Find(FirstFound(edu_keywords, chunks)[1], chunks)
         IN  IF FindBlankLine(chunks, start) <= Len(chunks)
             THEN SubSeq(chunks, start, FindBlankLine(chunks, start) - 1)
             ELSE Prefix(SubSeq(chunks, start, Len(chunks)), 300)

\* lines 349 and 356: r'(cue|...)(?:.*?)\bpattern\b', a cue and after it,
\* on the same line, the pattern as a word
CueBefore(cues, parts, section) ==
    \E j \in DOMAIN section :
        /\ PartsMatchAt(parts, section, j, "word", "wordend", "wordstart")
        /\ \E i \in 1..(j - 1) :
              /\ \A l \in i..j : section[l] # "\n\n"
              /\ \E cue \in cues :
                    PhraseAt(cue, section, i) /\ i + Len(Parts(cue)) <= j

\* lines 347-365: the patterns of one level
RECURSIVE ScanPatterns(_, _, _, _)
ScanPatterns(patterns, level, section, found) ==
    IF patterns = <<>> THEN found
    ELSE IF CueBefore({"require", "must have", "necessary"},
                      Parts(Head(patterns)), section)
    THEN [found EXCEPT !.required = Some(level)]
    ELSE IF CueBefore({"prefer", "ideally", "nice to have"},
                      Parts(Head(patterns)), section)
    THEN [found EXCEPT !.preferred = Some(level)]
    ELSE ScanPatterns(Tail(patterns), level, section,
                      IF /\ WordSearch(Head(patterns), section)
                         /\ found.required = None
                      THEN [found EXCEPT !.required = Some(level)]
                      ELSE found)

\* lines 346-365
RECURSIVE ScanLevels(_, _, _)
ScanLevels(levels, section, found) ==
    IF levels = <<>> THEN found
    ELSE ScanLevels(Tail(levels), section,
                    ScanPatterns(Head(levels)[2], Head(levels)[1], section,
                                 found))

\* [A-Za-z\s,]: the chunk is made of letters and commas, or is a blank line
InField(chunk) == chunk = "\n\n" \/ Holds("fullmatch", "[A-Za-z,]+", chunk)

\* ([A-Za-z\s,]+) from chunk i on
RECURSIVE FieldRun(_, _)
FieldRun(chunks, i) ==
    IF i \in DOMAIN chunks /\ InField(chunks[i])
    THEN <<chunks[i]>> \o FieldRun(chunks, i + 1)
    ELSE <<>>

\* match.strip()
RECURSIVE Strip(_)
Strip(run) ==
    IF run = <<>> THEN run
    ELSE IF Head(run) = "\n\n" THEN Strip(Tail(run))
    ELSE IF run[Len(run)] = "\n\n" THEN Strip(SubSeq(run, 1, Len(run) - 1))
    ELSE run

\* re.findall(word + r' in ([A-Za-z\s,]+)', chunks) from chunk i on
RECURSIVE FieldsAfter(_, _, _)
FieldsAfter(word, chunks, i) ==
    IF i + 2 > Len(chunks) THEN <<>>
    ELSE IF /\ Holds("endswith", word, chunks[i])
            /\ chunks[i + 1] = "in"
            /\ FieldRun(chunks, i + 2) # <<>>
    THEN <<Strip(FieldRun(chunks, i + 2))>>
         \o FieldsAfter(word, chunks, i + 2 + Len(FieldRun(chunks, i + 2)))
    ELSE FieldsAfter(word, chunks, i + 1)

\* The first chunk of the letters, commas and white space that end before
\* chunk j
RECURSIVE RunStart(_, _)
RunStart(chunks, j) ==
    IF j > 1 /\ InField(chunks[j - 1]) THEN RunStart(chunks, j - 1) ELSE j

\* re.findall(r'([A-Za-z\s,]+) degree', chunks) from chunk j on: the match
\* is greedy, it ends at the last "degree" that its letters reach
RECURSIVE FieldsBefore(_, _)
FieldsBefore(chunks, j) ==
    IF j > Len(chunks) THEN <<>>
    ELSE IF /\ Holds("startswith", "degree", chunks[j])
            /\ RunStart(chunks, j) < j
            /\ ~\E k \in (j + 1)..Len(chunks) :
                  /\ Holds("startswith", "degree", chunks[k])
                  /\ \A l \in j..(k - 1) : InField(chunks[l])
    THEN <<Strip(SubSeq(chunks, RunStart(chunks, j), j - 1))>>
         \o FieldsBefore(chunks, j + 1)
    ELSE FieldsBefore(chunks, j + 1)

\* lines 380-383: a match that names a degree level is not a field
RECURSIVE StudyFields(_)
StudyFields(matches) ==
    IF matches = <<>> THEN <<>>
    ELSE (IF \E d \in {"bachelor", "master", "phd", "associate"} :
                PhraseIn(d, Head(matches))
          THEN <<>> ELSE <<Head(matches)>>)
         \o StudyFields(Tail(matches))

\* lines 367-383.  No chunk of the model's texts begins with a parenthesis,
\* so the fourth pattern, r'degree \(([A-Za-z\s,]+)\)', finds nothing.
fields_of(section) ==
    StudyFields(FieldsAfter("degree", section, 1)
                \o FieldsAfter("background", section, 1)
                \o FieldsBefore(section, 1))

EducationRecord(found, fields) ==
    [type |-> "dict",
     keys |-> {"required", "preferred", "fields", "description"},
     required |-> found.required, preferred |-> found.preferred,
     fields |-> fields]

extract_education(text) ==
    EducationRecord(ScanLevels(degree_patterns,
                               edu_section(Flat(LowerText(text))),
                               [required |-> None, preferred |-> None]),
                    fields_of(edu_section(Flat(LowerText(text)))))

-----------------------------------------------------------------------------
(* job_description.analyze_job_description, in a run of the program with   *)
(* the hash seed `seed`.  The result is None or the requirements dict.     *)

\* lines 104-113
JobRequirements(text, skills, priority_skills) ==
    [raw_text |-> text,
     skills |-> skills,
     priority_skills |-> priority_skills,
     required_skills |-> skills,
     preferred_skills |-> priority_skills,
     experience |-> extract_experience(text),
     education |-> extract_education(text),
     responsibilities |-> extract_responsibilities(text)]

analyze_job_description(job_description_text, seed) ==
    IF job_description_text = <<>> THEN None
    ELSE JobRequirements(job_description_text,
            extract_skills(job_description_text, seed),
            extract_priority_skills(job_description_text,
                extract_skills(job_description_text, seed)))

-----------------------------------------------------------------------------
(* resume_upload.extract_experience_from_text, the dates of an entry.  The *)
(* context of a job title holds one pair of dates: a start, the year alone *)
(* ("2019") or after a month ("Jan 2019"), and an end, written "Present",  *)
(* "Current", "present", as a year ("2022") or as a month and a year       *)
(* ("Mar 2022").  A context is a record of month ("" when there is none),  *)
(* year and end.                                                           *)

\* re.search(date_pattern, context, re.IGNORECASE): a month and a year,
\* then Present, Current or a month, in either case of the letters
date_pattern(context) ==
    /\ context.month # ""
    /\ context.end \in {"Present", "Current", "present", "Mar 2022"}

\* re.search(year_pattern, context): a year, then Present, Current or a year
year_pattern(context) ==
    IF context.month # "" THEN context.end = "2022"
    ELSE context.end \in {"Present", "Current", "2022"}

\* lines 239-241 and 248-250: group 1 and group 2 of the first of the two
\* patterns that matches, None when none does; group 1 is the month of the
\* date pattern, a word, and the year of the year pattern, a number
date_match(context) ==
    IF date_pattern(context)
    THEN Some([start_date |-> W(context.month),
               end_date |-> IF context.end = "Mar 2022" THEN "Mar"
                            ELSE context.end])
    ELSE IF year_pattern(context)
    THEN Some([start_date |-> N(context.year), end_date |-> context.end])
    ELSE None

\* line 255: re.search(r'\b(19[9]\d|20[0-2]\d)\b', start_date)
start_year_match(start_date) ==
    IF IsNum(start_date) /\ start_date[2] >= 1990 /\ start_date[2] <= 2029
    THEN Some(start_date[2]) ELSE None

\* lines 252-259: the number of years in duration, None when duration is
\* None
DurationOf(dates, current_year) ==
    IF /\ dates.end_date \in {"Present", "Current"}
       /\ start_year_match(dates.start_date) # None
    THEN Some(current_year - start_year_match(dates.start_date)[1])
    ELSE None

\* line 267: float(duration.split()[0]) if duration and
\* duration.split()[0].isdigit() else 0; "-3" is not made of digits
YearsOf(duration) ==
    IF duration # None /\ duration[1] >= 0 THEN Num(duration[1]) ELSE Zero

\* lines 243-268: the dates of the entry appended for a job title
ExperienceEntry(context, current_year) ==
    IF date_match(context) = None
    THEN [start_date |-> None, end_date |-> None, duration |-> None,
          years |-> Zero]
    ELSE [start_date |-> Some(date_match(context)[1].start_date),
          end_date |-> Some(date_match(context)[1].end_date),
          duration |-> DurationOf(date_match(context)[1], current_year),
          years |-> YearsOf(DurationOf(date_match(context)[1],
                                       current_year))]

-----------------------------------------------------------------------------
(* text_analysis.extract_skills(text, custom_skills).  A list object of    *)
(* the program is named <<"ALL_SKILLS", 0>>, the list of the module, or    *)
(* <<"copy", r>>, the list that request r makes; a variable holds the name *)
(* of the object it refers to.  A text is the sequence of its words.       *)

\* line 57: of the skills of the vocabulary, in their order, two that the
\* words of the model's texts name and one that none names
ALL_SKILLS == <<"python", "java", "sql">>

\* A variant of skills_to_search: ALL_SKILLS itself, not a copy of it.
skills_to_search_shared(r) == <<"ALL_SKILLS", 0>>

\* line 112: skills_to_search = ALL_SKILLS.copy(), the object it refers to
skills_to_search(r) == <<"copy", r>>

\* line 114: [skill.lower() for skill in custom_skills]
LowerSkills(custom_skills) ==
    [i \in DOMAIN custom_skills |-> Lower(custom_skills[i])]

\* lines 109 and 121-122: the skill is a word of the lower-cased text
SkillIsWord(skill, text) == \E i \in DOMAIN text : Lower(text[i]) = skill

\* lines 117-123
found_skills(skills, text) ==
    SelectSeq(skills, LAMBDA skill : SkillIsWord(skill, text))

-----------------------------------------------------------------------------
(* The arguments of the calls.                                             *)

MaxSkills == 3      \* longest list of job skills
MaxPriority == 2    \* longest list of priority skills
MaxEntries == 2     \* longest list of experience or of education entries
MaxRequirements == 2 \* longest list of education requirement strings
MaxWeight == 2      \* largest weight of a configuration, in tenths

BonusValues == {Num(-1), Zero, Rat(1, 2), Num(2)}

\* The skills of the resumes
ResumeSkillSets ==
    { {}, {"python"}, {"Python"}, {"sql"}, {"nosql"}, {"python", "sql"},
      {"Python", "nosql"}, SkillNames }

\* A config that holds only priority_skill_bonus, or not even that.
BonusConfigs ==
    {<<>>} \cup {[priority_skill_bonus |-> b] : b \in BonusValues}

Str(txt) == [type |-> "str", text |-> txt]
DescriptionDict(txt) ==
    [type |-> "dict", keys |-> {"years", "level", "description"},
     description |-> txt, years |-> None, level |-> <<>>]
YearsDict(y) ==
    [type |-> "dict", keys |-> {"years"}, description |-> <<>>,
     years |-> y, level |-> <<>>]
LevelDict(txt) ==
    [type |-> "dict", keys |-> {"level"}, description |-> <<>>,
     years |-> None, level |-> txt]
EmptyDict ==
    [type |-> "dict", keys |-> {}, description |-> <<>>, years |-> None,
     level |-> <<>>]
List(n) == [type |-> "list", len |-> n]
NoneArg == [type |-> "none"]

ExperienceTexts ==
    { <<>>,
      <<N(5), W("years")>>,
      <<N(3), W("years")>>,
      <<N(0), W("years")>>,
      <<N(5), W("+"), W("years")>>,
      <<N(3), W(" +"), W("years")>>,
      <<N(3), W("-"), N(5), W("years")>>,
      <<W("at least"), N(3), W("years")>>,
      <<W("minimum of"), N(5), W("years")>>,
      <<N(3), W(" +"), W("years"), N(5), W("years")>>,
      <<W("years")>>,
      <<W("senior")>>,
      <<W("staff")>>,
      <<W("entry")>>,
      <<N(5), W("+"), W("years"), W("Senior Level")>>,
      <<W("Entry Level")>> }

JobExperiences ==
    {Str(txt) : txt \in ExperienceTexts}
    \cup {DescriptionDict(txt) : txt \in ExperienceTexts}
    \cup {YearsDict(y) : y \in {None, Some(-2), Some(0), Some(4)}}
    \cup {LevelDict(<<W("senior")>>), EmptyDict, List(0), List(1), NoneArg}

ExperienceEntries ==
    { [kind |-> "years", years |-> Num(-1), title |-> ""],
      [kind |-> "years", years |-> Zero, title |-> ""],
      [kind |-> "years", years |-> Rat(1, 4), title |-> ""],
      [kind |-> "years", years |-> Num(3), title |-> "Senior Engineer"],
      [kind |-> "years", years |-> Num(6), title |-> ""],
      [kind |-> "duration", dy |-> 2, dm |-> 6, title |-> "Chief Architect"],
      [kind |-> "dates", start_date |-> "2019", end_date |-> "Mar 2022",
       title |-> ""],
      [kind |-> "dates", start_date |-> "2019", end_date |-> "Present",
       title |-> ""],
      [kind |-> "other"] }

RequirementStrings ==
    {"Bachelor's degree in Computer Science", "Master's degree",
     "PhD in Mathematics", "Associate degree", "Doctorate",
     "Degree in Statistics"}

JobEducations ==
    {[type |-> "list", items |-> items] :
        items \in ListsOf(RequirementStrings, MaxRequirements)}
    \cup {[type |-> "str", text |-> req] : req \in RequirementStrings \cup {""}}
    \cup {[type |-> "dict", keys |-> {}],
          [type |-> "dict",
           keys |-> {"required", "preferred", "fields", "description"}],
          [type |-> "none"]}

EducationEntries ==
    { [kind |-> "dict", degree |-> "Bachelor of Science",
       field |-> "Computer Science"],
      [kind |-> "dict", degree |-> "Master", field |-> ""],
      [kind |-> "dict", degree |-> "PhD", field |-> "Science"],
      [kind |-> "dict", degree |-> "Associate", field |-> "Art History"],
      [kind |-> "dict", degree |-> "MBA", field |-> "Software Engineering"],
      [kind |-> "dict", degree |-> "M.B.A.", field |-> ""],
      [kind |-> "dict", degree |-> "Master in Data Science", field |-> ""],
      [kind |-> "other"] }

\* The values that reach the functions which read the resume's education
\* and experience
EducationValues ==
    {[type |-> "list", items |-> items] :
        items \in ListsOf(EducationEntries, MaxEntries)}
    \cup {[type |-> "str", text |-> text] :
            text \in {"Master", "PhD", "Computer Science"}}
    \cup {[type |-> "dict", entry |-> entry] :
            entry \in {e \in EducationEntries : e.kind = "dict"}}
    \cup {[type |-> "other"]}

ExperienceValues ==
    {[type |-> "list", items |-> items] :
        items \in ListsOf(ExperienceEntries, MaxEntries)}
    \cup {[type |-> "dict", entry |-> entry] :
            entry \in {e \in ExperienceEntries : e.kind # "other"}}
    \cup {[type |-> "str", text |-> "5 years"], [type |-> "other"]}

DegreeStrings == {"associate", "bachelor", "master", "doctorate", "diploma", ""}

MaxParagraphs == 2  \* most paragraphs of a text
MaxSeed == 3        \* largest hash seed of a run of the program

\* The texts: the empty string is the text without paragraphs
Paragraphs == {Paragraph[name] : name \in DOMAIN Paragraph}
Texts == UNION {[1..k -> Paragraphs] : k \in 0..MaxParagraphs}
HashSeeds == 1..MaxSeed

MaxSections == 4    \* most sections of a resume text

\* The sections of the resume texts: one without a word, one of 60 words
LongSection == [i \in 1..60 |-> "the"]
ResumeSections == {<<>>, <<"Python">>, <<"sql", "the">>, LongSection}
ResumeTexts == UNION {[1..k -> ResumeSections] : k \in 0..MaxSections}
KeywordLists ==
    {<<>>, <<"python">>, <<"python", "Python">>, <<"python", "python">>,
     <<"sql", "nosql">>}
SkillLists ==
    {<<>>, <<"python">>, <<"java", "python">>, <<"sql", "javascript">>,
     <<"python", "sql", "python">>, <<"javascript", "java", "data science">>}

-----------------------------------------------------------------------------
(* The state machine: from idle a caller calls one function, which leaves  *)
(* its arguments and its result in the state; Return goes back to idle.    *)

\* The requests that run at the same time, and the inputs of a request
MaxRequests == 2
Requests == 1..MaxRequests
RequestTexts == {<<"Python", "the">>, <<"nosql", "sql">>}
CustomSkills == {None, <<"nosql">>, <<"Python">>}

\* A request that runs nothing
NoRequest ==
    [pc |-> "idle", text |-> <<>>, custom_skills |-> None,
     skills_to_search |-> None, found_skills |-> <<>>]

Init ==
    /\ op = "idle" /\ args = <<>> /\ ret = <<>> /\ locals = <<>>
    /\ heap = [o \in {<<"ALL_SKILLS", 0>>} \cup {<<"copy", r>> : r \in Requests}
                |-> IF o[1] = "ALL_SKILLS" THEN ALL_SKILLS ELSE <<>>]
    /\ requests = [r \in Requests |-> NoRequest]

Return ==
    /\ op # "idle"
    /\ UNCHANGED <<heap, requests>>
    /\ op' = "idle" /\ args' = <<>> /\ ret' = <<>> /\ locals' = <<>>

SkillMatchCall ==
    /\ op = "idle"
    /\ UNCHANGED <<heap, requests>>
    /\ \E resume_skills \in ResumeSkillSets,
          job_skills \in ListsOf(SkillNames, MaxSkills),
          priority_skills \in ListsOf(SkillNames, MaxPriority),
          config \in BonusConfigs, t \in TieBreak :
            /\ op' = "calculate_skill_match"
            /\ args' = [resume_skills |-> resume_skills,
                        job_skills |-> job_skills,
                        priority_skills |-> priority_skills,
                        config |-> config]
            /\ ret' = calculate_skill_match(resume_skills, job_skills,
                                            priority_skills, config, t)
            /\ locals' = <<>>

ExperienceMatchCall ==
    /\ op = "idle"
    /\ UNCHANGED <<heap, requests>>
    /\ \E resume_experience \in ListsOf(ExperienceEntries, MaxEntries),
          job_experience \in JobExperiences, t \in TieBreak :
            /\ op' = "calculate_experience_match"
            /\ args' = [resume_experience |-> resume_experience,
                        job_experience |-> job_experience]
            /\ ret' = calculate_experience_match(resume_experience,
                                                 job_experience, <<>>, t)
            /\ locals' = <<>>

EducationMatchCall ==
    /\ op = "idle"
    /\ UNCHANGED <<heap, requests>>
    /\ \E resume_education \in ListsOf(EducationEntries, MaxEntries),
          job_education \in JobEducations, t \in TieBreak :
            /\ op' = "calculate_education_match"
            /\ args' = [resume_education |-> resume_education,
                        job_education |-> job_education]
            /\ ret' = calculate_education_match(resume_education,
                                                job_education, <<>>, t)
            /\ locals' = IF FalsyEducation(job_education) THEN <<>>
                         ELSE EducationLocals(resume_education, job_education)

DegreeMatchScoreCall ==
    /\ op = "idle"
    /\ UNCHANGED <<heap, requests>>
    /\ \E resume_degree \in DegreeStrings, required_degree \in DegreeStrings :
            /\ op' = "calculate_degree_match_score"
            /\ args' = [resume_degree |-> resume_degree,
                        required_degree |-> required_degree]
            /\ ret' = calculate_degree_match_score(resume_degree,
                                                   required_degree)
            /\ locals' = <<>>

\* The calls of the functions that bring a field of the job or of the resume
\* into the form of a list and extract from it
NormalizeCall ==
    /\ op = "idle"
    /\ UNCHANGED <<heap, requests>>
    /\ locals' = <<>>
    /\ \/ \E education_requirements \in JobEducations :
             /\ args' = [value |-> education_requirements]
             /\ \/ /\ op' = "extract_degree_requirements"
                   /\ ret' = extract_degree_requirements(
                                 education_requirements)
                \/ /\ op' = "extract_field_requirements"
                   /\ ret' = extract_field_requirements(
                                 education_requirements)
       \/ \E education_entries \in EducationValues :
             /\ args' = [value |-> education_entries]
             /\ \/ /\ op' = "extract_degrees_from_resume"
                   /\ ret' = extract_degrees_from_resume(
                                 EducationEntriesOf(education_entries,
                                                    "degree"))
                \/ /\ op' = "extract_fields_from_resume"
                   /\ ret' = extract_fields_from_resume(
                                 EducationEntriesOf(education_entries,
                                                    "field"))
       \/ \E experience_entries \in ExperienceValues, t \in TieBreak :
             /\ args' = [value |-> experience_entries]
             /\ op' = "calculate_total_experience_years"
             /\ ret' = calculate_total_experience_years(
                           ExperienceEntriesOf(experience_entries), t)

\* A request calls text_analysis.extract_skills(text, custom_skills)
SkillsCall ==
    /\ \E r \in Requests, text \in RequestTexts, custom_skills \in CustomSkills :
          /\ requests[r].pc = "idle"
          /\ requests' = [requests EXCEPT
                            ![r] = [NoRequest EXCEPT
                                      !.pc = "copy", !.text = text,
                                      !.custom_skills = custom_skills]]
    /\ UNCHANGED <<op, args, ret, locals, heap>>

\* line 112
SkillsCopy ==
    /\ \E r \in Requests :
          /\ requests[r].pc = "copy"
          /\ heap' = [heap EXCEPT ![<<"copy", r>>] = heap[<<"ALL_SKILLS", 0>>]]
          /\ requests' = [requests EXCEPT
                            ![r].skills_to_search = skills_to_search(r),
                            ![r].pc = "extend"]
    /\ UNCHANGED <<op, args, ret, locals>>

\* lines 113-114
SkillsExtend ==
    /\ \E r \in Requests :
          /\ requests[r].pc = "extend"
          /\ heap' = IF requests[r].custom_skills # <<>>
                     THEN [heap EXCEPT
                             ![requests[r].skills_to_search] =
                                 @ \o LowerSkills(requests[r].custom_skills)]
                     ELSE heap
          /\ requests' = [requests EXCEPT ![r].pc = "search"]
    /\ UNCHANGED <<op, args, ret, locals>>

\* lines 117-123
SkillsSearch ==
    /\ \E r \in Requests :
          /\ requests[r].pc = "search"
          /\ requests' = [requests EXCEPT
                            ![r].found_skills =
                                found_skills(heap[requests[r].skills_to_search],
                                             requests[r].text),
                            ![r].pc = "return"]
    /\ UNCHANGED <<op, args, ret, locals, heap>>

\* line 125: the request returns found_skills and its list is given up
SkillsReturn ==
    /\ \E r \in Requests :
          /\ requests[r].pc = "return"
          /\ requests' = [requests EXCEPT ![r] = NoRequest]
          /\ heap' = [heap EXCEPT ![<<"copy", r>>] = <<>>]
    /\ UNCHANGED <<op, args, ret, locals>>

\* The calls of calculate_match_score that the model makes: the skills,
\* experience and education of a few resumes and jobs, combined freely.
ReportSkills ==
    { <<{"python"}, <<"python", "sql">>, <<"python">>>>,
      <<{"nosql"}, <<"sql">>, <<"sql", "python">>>>,
      <<{"Python"}, <<"python", "sql">>, <<>>>>,
      <<{"nosql"}, <<"sql">>, <<"sql">>>>,
      <<{"python"}, <<>>, <<>>>>,
      <<{}, <<"python", "Python", "sql", "nosql">>, <<"sql">>>> }

ReportExperiences ==
    { << <<>>, Str(<<>>) >>,
      << <<[kind |-> "years", years |-> Num(3), title |-> "Senior Engineer"]>>,
         Str(<<N(5), W("years")>>) >>,
      << <<[kind |-> "years", years |-> Num(3), title |-> "Senior Engineer"]>>,
         DescriptionDict(<<N(5), W("+"), W("years"), W("Senior Level")>>) >>,
      << <<[kind |-> "years", years |-> Zero, title |-> ""]>>,
         Str(<<N(5), W("years")>>) >>,
      << <<[kind |-> "years", years |-> Rat(1, 4), title |-> ""]>>,
         Str(<<W("staff")>>) >>,
      << <<[kind |-> "years", years |-> Num(-1), title |-> ""]>>,
         Str(<<N(3), W("years")>>) >> }

ReportEducations ==
    { << <<>>, [type |-> "list", items |-> <<>>] >>,
      << <<[kind |-> "dict", degree |-> "Bachelor of Science",
            field |-> "Computer Science"]>>,
         [type |-> "list",
          items |-> <<"Bachelor's degree in Computer Science">>] >>,
      << <<[kind |-> "dict", degree |-> "Associate",
            field |-> "Art History"]>>,
         [type |-> "list", items |-> <<"PhD in Mathematics">>] >>,
      << <<>>, [type |-> "list", items |-> <<"Master's degree">>] >>,
      << <<[kind |-> "dict", degree |-> "Master", field |-> ""]>>,
         [type |-> "dict",
          keys |-> {"required", "preferred", "fields", "description"}] >> }

ReportTexts == { <<>>, << <<"Python", "the">>, <<"the", "sql", "sql">> >> }

Responsibilities == { <<>>, <<"Build data services">> }

SimilarityValues == {Zero, One}

\* What the library may answer for a text: nothing when it is not called,
\* else an exception or one similarity for each section.
Similarities(raw_text, responsibilities) ==
    IF raw_text = <<>> \/ responsibilities = <<>>
    THEN {[raised |-> FALSE, values |-> <<>>]}
    ELSE {[raised |-> TRUE, values |-> <<>>]}
         \cup {[raised |-> FALSE, values |-> v] :
                v \in [1..Len(raw_text) -> SimilarityValues]}

Weights == {Rat(w, 10) : w \in 1..MaxWeight}

WeightConfig(s, x, e) ==
    [skill_weight |-> s, experience_weight |-> x, education_weight |-> e]

\* No config, configs with three positive weights, and configs that are
\* not valid: a weight missing, a weight of zero, all weights zero and a
\* negative bonus.
Configs ==
    {NoConfig}
    \cup {WeightConfig(s, x, e) : s \in Weights, x \in Weights, e \in Weights}
    \cup {[skill_weight |-> Rat(5, 10)],
          WeightConfig(Rat(5, 10), Zero, Rat(2, 10)),
          WeightConfig(Zero, Zero, Zero),
          [skill_weight |-> Rat(5, 10), experience_weight |-> Rat(3, 10),
           education_weight |-> Rat(2, 10), priority_skill_bonus |-> Zero],
          [skill_weight |-> Rat(5, 10), experience_weight |-> Rat(3, 10),
           education_weight |-> Rat(2, 10), priority_skill_bonus |-> Num(-1)]}

MatchScoreCall ==
    /\ op = "idle"
    /\ UNCHANGED <<heap, requests>>
    /\ \E sk \in ReportSkills, ex \in ReportExperiences,
          ed \in ReportEducations, raw_text \in ReportTexts,
          responsibilities \in Responsibilities, config \in Configs,
          t \in TieBreak :
        \E similarities \in Similarities(raw_text, responsibilities) :
        LET resume_data == [skills |-> sk[1], experience |-> ex[1],
                            education |-> ed[1], raw_text |-> raw_text]
            job_analysis == [skills |-> sk[2], priority_skills |-> sk[3],
                             experience |-> ex[2], education |-> ed[2],
                             responsibilities |-> responsibilities]
        IN  /\ op' = "calculate_match_score"
            /\ args' = [resume_data |-> resume_data,
                        job_analysis |-> job_analysis,
                        config |-> config]
            /\ ret' = calculate_match_score(resume_data, job_analysis, config,
                                            similarities, t)
            /\ locals' = <<>>

\* The resumes that are compared with the text of a job description
JobTextResumes ==
    { [skills |-> {"python"},
       experience |-> <<[kind |-> "years", years |-> Num(3),
                         title |-> "Senior Engineer"]>>,
       education |-> <<[kind |-> "dict", degree |-> "Master", field |-> ""]>>,
       raw_text |-> << <<"Python", "the">>, <<"the", "sql", "sql">> >>],
      [skills |-> {},
       experience |-> <<>>,
       education |-> <<>>,
       raw_text |-> << <<"the">> >>] }

\* The flow from the text of a job description to the report:
\* analyze_job_description(job_description_text), whose result is kept in
\* the session, then analyze_resume, which with the resume_data it has
\* extracted calls compare_resume_to_job(resume_data, job_description) if
\* job_description is truthy; the result is the match_report, None when
\* there is none.
MatchJobTextCall ==
    /\ op = "idle"
    /\ UNCHANGED <<heap, requests>>
    /\ \E job_description_text \in Texts, seed \in HashSeeds :
        \E job_description \in
                {analyze_job_description(job_description_text, seed)} :
            \E resume_data \in JobTextResumes, t \in TieBreak :
            \E similarities \in
                    IF job_description = None
                    THEN {[raised |-> FALSE, values |-> <<>>]}
                    ELSE Similarities(resume_data.raw_text,
                                      job_description.responsibilities) :
                /\ op' = "analyze_resume"
                /\ args' = [job_description_text |-> job_description_text,
                            seed |-> seed, resume_data |-> resume_data]
                /\ locals' = [job_description |-> job_description]
                /\ ret' = IF job_description = None THEN None
                          ELSE calculate_match_score(resume_data,
                                    job_description, NoConfig, similarities,
                                    t)

\* job_description.extract_skills(text), in a run with the hash seed `seed`
ExtractSkillsCall ==
    /\ op = "idle"
    /\ UNCHANGED <<heap, requests>>
    /\ \E text \in Texts, seed \in HashSeeds :
          /\ op' = "extract_skills"
          /\ args' = [text |-> text, seed |-> seed]
          /\ ret' = extract_skills(text, seed)
    /\ locals' = <<>>

\* resume_upload.extract_skills_from_text(text)
ExtractSkillsFromTextCall ==
    /\ op = "idle"
    /\ UNCHANGED <<heap, requests>>
    /\ \E text \in Texts :
          /\ op' = "extract_skills_from_text"
          /\ args' = [text |-> text]
          /\ ret' = extract_skills_from_text(text)
    /\ locals' = <<>>

\* The contexts of a job title and the years in which the program runs
DateContexts ==
    [month : {"", "Jan"},
     year : {1989, 1990, 2019, 2026, 2029, 2030},
     end : {"Present", "Current", "present", "2022", "Mar 2022"}]
CurrentYears == {2026, 2027}

\* resume_upload.extract_experience_from_text(text), for each entry
ExtractExperienceFromTextCall ==
    /\ op = "idle"
    /\ UNCHANGED <<heap, requests>>
    /\ \E context \in DateContexts, current_year \in CurrentYears :
          /\ op' = "extract_experience_from_text"
          /\ args' = [context |-> context, current_year |-> current_year]
          /\ ret' = ExperienceEntry(context, current_year)
    /\ locals' = <<>>

\* job_description.extract_priority_skills(text, skills)
ExtractPrioritySkillsCall ==
    /\ op = "idle"
    /\ UNCHANGED <<heap, requests>>
    /\ \E text \in Texts, skills \in SkillLists :
          /\ op' = "extract_priority_skills"
          /\ args' = [text |-> text, skills |-> skills]
          /\ ret' = extract_priority_skills(text, skills)
    /\ locals' = <<>>

\* job_description.extract_responsibilities(text)
ExtractResponsibilitiesCall ==
    /\ op = "idle"
    /\ UNCHANGED <<heap, requests>>
    /\ \E text \in Texts :
          /\ op' = "extract_responsibilities"
          /\ args' = [text |-> text]
          /\ ret' = extract_responsibilities(text)
          /\ locals' = [resp_section |-> resp_section(Flat(LowerText(text)))]

\* job_description.extract_experience(text)
ExtractExperienceCall ==
    /\ op = "idle"
    /\ UNCHANGED <<heap, requests>>
    /\ \E text \in Texts :
          /\ op' = "extract_experience"
          /\ args' = [text |-> text]
          /\ ret' = extract_experience(text)
    /\ locals' = <<>>

\* calculate_keyword_density(resume_text, job_keywords)
KeywordDensityCall ==
    /\ op = "idle"
    /\ UNCHANGED <<heap, requests>>
    /\ \E resume_text \in ResumeTexts, job_keywords \in KeywordLists,
          t \in TieBreak :
          /\ op' = "calculate_keyword_density"
          /\ args' = [resume_text |-> resume_text,
                      job_keywords |-> job_keywords]
          /\ ret' = calculate_keyword_density(resume_text, job_keywords, t)
    /\ locals' = <<>>

Next == MatchScoreCall \/ Return
Spec == Init /\ [][Next]_vars

\* The calls of the scoring functions one by one
NextFunctions ==
    \/ SkillMatchCall
    \/ ExperienceMatchCall
    \/ EducationMatchCall
    \/ DegreeMatchScoreCall
    \/ KeywordDensityCall
    \/ NormalizeCall
    \/ Return
SpecFunctions == Init /\ [][NextFunctions]_vars

\* The calls of the functions that read a text
NextText ==
    \/ ExtractSkillsCall
    \/ ExtractSkillsFromTextCall
    \/ ExtractPrioritySkillsCall
    \/ ExtractResponsibilitiesCall
    \/ ExtractExperienceCall
    \/ ExtractExperienceFromTextCall
    \/ Return
SpecText == Init /\ [][NextText]_vars

\* The requests that run text_analysis.extract_skills at the same time
NextRequests ==
    \/ SkillsCall
    \/ SkillsCopy
    \/ SkillsExtend
    \/ SkillsSearch
    \/ SkillsReturn
SpecRequests == Init /\ [][NextRequests]_vars

\* The flow from the text of a job description to the report
NextFlow == MatchJobTextCall \/ Return
SpecFlow == Init /\ [][NextFlow]_vars

-----------------------------------------------------------------------------
(* The properties of the scores.                                           *)

In01(x) == RLe(Zero, x) /\ RLe(x, One)
RoundedTo(x, k) == {Round(x, k, t) : t \in TieBreak}
Count(list, x) == Cardinality({i \in DOMAIN list : list[i] = x})
Returned == op = "calculate_match_score" /\ "overall_score" \in DOMAIN ret

\* The inputs the report is defined for: the priority skills are job
\* skills, the bonus is not negative, no entry has negative years, and the
\* config, when given, has three positive weights.
ValidReportInputs ==
    LET ja == args.job_analysis
        rd == args.resume_data
        cfg == args.config
    IN  /\ Range(ja.priority_skills) \subseteq Range(ja.skills)
        /\ \A i \in DOMAIN rd.experience :
              rd.experience[i].kind = "years"
                  => RLe(Zero, rd.experience[i].years)
        /\ \/ "none" \in DOMAIN cfg
           \/ /\ WeightKeys \subseteq DOMAIN cfg
              /\ \A k \in WeightKeys : RLt(Zero, cfg[k])
              /\ RLe(Zero, DictGet(cfg, "priority_skill_bonus", Num(2)))

\* C1: for valid inputs calculate_match_score returns a report in which the
\* overall score, the three sub-scores, the keyword density score and the
\* content similarity score all lie between 0 and 1.
C1_ScoresInUnitInterval ==
    (op = "calculate_match_score" /\ ValidReportInputs) =>
        /\ "overall_score" \in DOMAIN ret
        /\ In01(ret.overall_score)
        /\ In01(ret.skill_analysis.score)
        /\ In01(ret.experience_analysis.score)
        /\ In01(ret.education_analysis.score)
        /\ In01(ret.keyword_density.score)
        /\ In01(ret.content_similarity.score)

\* C1's case: a report for valid inputs whose resume text repeats a job
\* skill and whose overall score is strictly between 0 and 1.
C1_Witness ==
    /\ Returned
    /\ ValidReportInputs
    /\ args.resume_data.raw_text # <<>>
    /\ RLt(Zero, ret.keyword_density.score)
    /\ RLt(Zero, ret.overall_score) /\ RLt(ret.overall_score, One)

\* C2: a job that asks for no skills, no experience or no education gives
\* the skill, experience or education score 1.0, whatever the resume holds.
C2_EmptyRequirementScoresOne ==
    /\ (op = "calculate_skill_match" /\ args.job_skills = <<>>)
          => ret.score = One
    /\ (op = "calculate_experience_match"
        /\ \/ args.job_experience.type = "none"
           \/ args.job_experience.type = "str"
              /\ args.job_experience.text = <<>>
           \/ args.job_experience.type = "dict"
              /\ args.job_experience.keys = {}
           \/ args.job_experience.type = "list"
              /\ args.job_experience.len = 0)
          => ret.score = One
    /\ (op = "calculate_education_match"
        /\ \/ args.job_education.type = "none"
           \/ args.job_education.type = "list"
              /\ args.job_education.items = <<>>
           \/ args.job_education.type = "str"
              /\ args.job_education.text = ""
           \/ args.job_education.type = "dict"
              /\ args.job_education.keys = {})
          => ret.score = One

\* C2's case: no education is required, the resume has an education entry,
\* and the score is 1.0.
C2_Witness ==
    /\ op = "calculate_education_match"
    /\ args.job_education.type = "list"
    /\ args.job_education.items = <<>>
    /\ args.resume_education # <<>>
    /\ ret.score = One

\* The skill score of the formula, before rounding, from the lists that
\* calculate_skill_match returned.
SkillFormula ==
    LET total == Len(args.job_skills)
        priority == Len(args.priority_skills)
        bonus == DictGet(args.config, "priority_skill_bonus", Num(2))
        base == Rat(Len(ret.matched_skills), total)
        priority_score ==
            IF priority = 0 THEN Zero
            ELSE RMul(Rat(Len(ret.priority_matched), priority), bonus)
        priority_weight == Rat(priority, total)
    IN  RMin(One, RAdd(RMul(base, RSub(One, priority_weight)),
                       RMul(priority_score, priority_weight)))

MatchedShare ==
    RMul(Rat(Len(ret.matched_skills), Len(args.job_skills)), Num(100))

\* Scenario A: the job asks for python and sql with python a priority, the
\* resume has python, the bonus is 2.0.
ScenarioA ==
    /\ op = "calculate_skill_match"
    /\ args.resume_skills = {"python"}
    /\ args.job_skills = <<"python", "sql">>
    /\ args.priority_skills = <<"python">>
    /\ DictGet(args.config, "priority_skill_bonus", Num(2)) = Num(2)

ScenarioAResult ==
    /\ ret.matched_skills = <<"python">>
    /\ ret.missing_skills = <<"sql">>
    /\ ret.priority_matched = <<"python">>
    /\ ret.match_percentage = Num(50)
    /\ ret.score = One

\* C3 as the spec states it: with job skills, the skill score is exactly
\* min(1, base * (1 - pw) + priority_score * pw) and the match percentage
\* exactly 100 * matched / total.
C3_ExactSkillScore ==
    /\ (op = "calculate_skill_match" /\ args.job_skills # <<>>) =>
          /\ ret.score = SkillFormula
          /\ ret.match_percentage = MatchedShare
    /\ ScenarioA => ScenarioAResult

\* C3: with job skills, the skill score is min(1, base * (1 - pw) +
\* priority_score * pw) rounded to two decimals and the match percentage
\* is 100 * matched / total rounded to one decimal; in Scenario A the
\* matched skills are [python], the missing skills [sql], the percentage 50
\* and the score 1.0.
C3_RoundedSkillScore ==
    /\ (op = "calculate_skill_match" /\ args.job_skills # <<>>) =>
          /\ ret.score \in RoundedTo(SkillFormula, 2)
          /\ ret.match_percentage \in RoundedTo(MatchedShare, 1)
    /\ ScenarioA => ScenarioAResult

\* C3's case: one of three job skills is matched and the priority skill is
\* missed, so the formula gives 2/9 and the score is 0.22.
C3_Witness ==
    /\ op = "calculate_skill_match"
    /\ Len(args.job_skills) = 3
    /\ Len(args.priority_skills) = 1
    /\ Len(ret.matched_skills) = 1
    /\ ret.priority_matched = <<>>
    /\ SkillFormula = Rat(2, 9)
    /\ ret.score = Rat(22, 100)

\* C4: every job skill is in exactly one of matched_skills and
\* missing_skills, as often as the job lists it, and the two lists hold
\* nothing else.
C4_MatchedMissingPartition ==
    op = "calculate_skill_match" =>
        /\ \A x \in SkillNames :
              Count(ret.matched_skills, x) + Count(ret.missing_skills, x)
                  = Count(args.job_skills, x)
        /\ Range(ret.matched_skills) \cap Range(ret.missing_skills) = {}
        /\ Len(ret.matched_skills) + Len(ret.missing_skills)
              = Len(args.job_skills)

\* C4's case: a job skill found only as a part of a resume skill is
\* matched while another job skill is missing.
C4_Witness ==
    /\ op = "calculate_skill_match"
    /\ args.resume_skills = {"nosql"}
    /\ args.job_skills = <<"sql", "python">>
    /\ ret.matched_skills = <<"sql">>
    /\ ret.missing_skills = <<"python">>

\* The texts that state one count of J years.
CountForms(J) ==
    { <<N(J), W("years")>>,
      <<N(J), W("+"), W("years")>>,
      <<N(J), W(" +"), W("years")>>,
      <<W("at least"), N(J), W("years")>>,
      <<W("minimum of"), N(J), W("years")>>,
      <<N(J), W("+"), W("years"), W("Senior Level")>> }

\* The job states the count of J years: in its text, in the description
\* of its record, or as the years of its record.
JobStatesCount(job_experience, J) ==
    \/ job_experience.type = "str" /\ job_experience.text \in CountForms(J)
    \/ /\ job_experience.type = "dict"
       /\ \/ /\ "description" \in job_experience.keys
             /\ job_experience.description \in CountForms(J)
          \/ /\ job_experience.keys = {"years"}
             /\ job_experience.years = Some(J)

\* The years an entry states, as a number of years or as years and months.
StatedYears(entry) ==
    IF entry.kind = "years" THEN entry.years
    ELSE RAdd(Num(entry.dy), Rat(entry.dm, 12))

RECURSIVE SumStatedYears(_)
SumStatedYears(entries) ==
    IF entries = <<>> THEN Zero
    ELSE RAdd(StatedYears(Head(entries)), SumStatedYears(Tail(entries)))

EntriesStateYears(entries) ==
    \A i \in DOMAIN entries : entries[i].kind \in {"years", "duration"}

YearCounts == 1..6

\* Scenario B: the job requires 5 years and the candidate shows 3.
ScenarioB ==
    /\ op = "calculate_experience_match"
    /\ JobStatesCount(args.job_experience, 5)
    /\ Len(args.resume_experience) = 1
    /\ args.resume_experience[1].kind = "years"
    /\ args.resume_experience[1].years = Num(3)

ScenarioBResult ==
    /\ ret.score = Rat(6, 10)
    /\ ret.years_required = Some(5)
    /\ ret.years_matched = Some(Num(3))

\* C5 as the spec states it: a job that states J > 0 years and entries
\* that sum to Y years give exactly the score min(1, Y / J), with
\* years_required J and years_matched Y.
C5_ExactExperienceScore ==
    /\ \A J \in YearCounts :
          (/\ op = "calculate_experience_match"
           /\ JobStatesCount(args.job_experience, J)
           /\ EntriesStateYears(args.resume_experience)) =>
              LET Y == SumStatedYears(args.resume_experience)
              IN  /\ ret.score = RMin(One, RDiv(Y, Num(J)))
                  /\ ret.years_required = Some(J)
                  /\ ret.years_matched = Some(Y)
    /\ ScenarioB => ScenarioBResult

\* C5: a job that states J > 0 years and entries that sum to Y years give
\* years_required J, years_matched Y rounded to one decimal, and the score
\* min(1, years_matched / J) rounded to two decimals; J = 5 and Y = 3 give
\* the score 0.6, years_required 5 and years_matched 3.
C5_RoundedExperienceScore ==
    /\ \A J \in YearCounts :
          (/\ op = "calculate_experience_match"
           /\ JobStatesCount(args.job_experience, J)
           /\ EntriesStateYears(args.resume_experience)) =>
              LET Y == SumStatedYears(args.resume_experience)
              IN  /\ ret.years_required = Some(J)
                  /\ \E matched \in RoundedTo(Y, 1) :
                        /\ ret.years_matched = Some(matched)
                        /\ ret.score \in
                              RoundedTo(RMin(One, RDiv(matched, Num(J))), 2)
    /\ ScenarioB => ScenarioBResult

\* C5's case: the job asks for at least 3 years, the candidate shows a
\* quarter of a year: years_matched is 0.2 or 0.3 and the score is neither
\* 1/12 nor 0 nor 1.
C5_Witness ==
    /\ op = "calculate_experience_match"
    /\ args.job_experience = Str(<<W("at least"), N(3), W("years")>>)
    /\ Len(args.resume_experience) = 1
    /\ args.resume_experience[1].kind = "years"
    /\ args.resume_experience[1].years = Rat(1, 4)
    /\ ret.years_required = Some(3)
    /\ ret.years_matched \in {Some(Rat(2, 10)), Some(Rat(3, 10))}
    /\ ret.score \in {Rat(7, 100), Rat(1, 10)}

\* The level of a degree on the four-point hierarchy of the spec.
Level(degree) ==
    CASE degree = "associate" -> 1
      [] degree = "bachelor" -> 2
      [] degree = "master" -> 3
      [] degree = "doctorate" -> 4
      [] OTHER -> 0

RequirementGiven ==
    op = "calculate_education_match" /\ locals # <<>>

\* C6: when one of the candidate's degrees is strictly higher than a
\* degree the job requires, degree_score is 1.0 and the education score is
\* at least 0.7.
C6_HigherDegreeFullCredit ==
    (/\ RequirementGiven
     /\ \E required \in locals.required_degrees,
           held \in locals.resume_degrees :
              Level(held) > Level(required)) =>
        /\ locals.degree_match_score = One
        /\ RLe(Rat(7, 10), ret.score)

\* C6's case: the job requires a master's degree and a doctorate, the
\* candidate holds a doctorate in an unrelated field.
C6_Witness ==
    /\ RequirementGiven
    /\ locals.required_degrees = {"master", "doctorate"}
    /\ locals.resume_degrees = {"doctorate"}
    /\ locals.field_match_score = Zero
    /\ locals.degree_match_score = One
    /\ ret.score = Rat(7, 10)

\* C7: the hierarchy is associate 1 < bachelor 2 < master 3 < doctorate 4,
\* and for a fixed required degree a candidate degree of a higher level
\* never gets less credit than one of a lower level.
C7_HierarchyMonotone ==
    op = "calculate_degree_match_score" =>
        /\ degree_hierarchy("associate") = 1
        /\ degree_hierarchy("bachelor") = 2
        /\ degree_hierarchy("master") = 3
        /\ degree_hierarchy("doctorate") = 4
        /\ \A higher \in DegreeStrings :
              Level(higher) > Level(args.resume_degree) =>
                  RLe(ret, calculate_degree_match_score(higher,
                                                        args.required_degree))

\* C7's case: a bachelor against a required doctorate gets half the
\* credit, a master gets more.
C7_Witness ==
    /\ op = "calculate_degree_match_score"
    /\ args.resume_degree = "bachelor"
    /\ args.required_degree = "doctorate"
    /\ ret = Rat(1, 2)
    /\ RLt(ret, calculate_degree_match_score("master", "doctorate"))

\* The credit of the spec for a candidate degree against a required one.
ExpectedCredit(held, required) ==
    IF Level(held) >= Level(required) THEN One
    ELSE Rat(Level(held), Level(required))

\* The best credit over all pairs of a required and a candidate degree,
\* 0 when there is no pair.
BestCredit ==
    LET credits == {ExpectedCredit(held, required) :
                        held \in locals.resume_degrees,
                        required \in locals.required_degrees}
    IN  IF credits = {} THEN Zero
        ELSE CHOOSE c \in credits : \A x \in credits : RLe(x, c)

WeightedEducation ==
    RAdd(RMul(Rat(7, 10), locals.degree_match_score),
         RMul(Rat(3, 10), locals.field_match_score))

\* Scenario C: the job requires a Bachelor's in computer science and the
\* candidate holds a Bachelor's in computer science.
ScenarioC ==
    /\ op = "calculate_education_match"
    /\ args.job_education =
          [type |-> "list",
           items |-> <<"Bachelor's degree in Computer Science">>]
    /\ args.resume_education =
          <<[kind |-> "dict", degree |-> "Bachelor of Science",
             field |-> "Computer Science"]>>

ScenarioCResult ==
    /\ locals.degree_match_score = One
    /\ locals.field_match_score = One
    /\ ret.score = One

\* C8 as the spec states it: with an education requirement the score is
\* exactly 0.7 * degree_score + 0.3 * field_score.
C8_ExactEducationScore ==
    /\ RequirementGiven =>
          /\ locals.degree_match_score = BestCredit
          /\ ret.score = WeightedEducation
    /\ ScenarioC => ScenarioCResult

\* C8: with an education requirement the score is 0.7 * degree_score +
\* 0.3 * field_score rounded to two decimals, where degree_score is the
\* best credit over all pairs of a required and a candidate degree; a
\* Bachelor's in computer science against a required Bachelor's in
\* computer science gives degree_score 1.0, field_score 1.0 and score 1.0.
C8_RoundedEducationScore ==
    /\ RequirementGiven =>
          /\ locals.degree_match_score = BestCredit
          /\ ret.score \in RoundedTo(WeightedEducation, 2)
    /\ ScenarioC => ScenarioCResult

\* C8's case: an associate against a required master's degree with the
\* field matched: degree_score 1/3, field_score 1.0, score 0.53.
C8_Witness ==
    /\ RequirementGiven
    /\ locals.required_degrees = {"master"}
    /\ locals.resume_degrees = {"associate"}
    /\ locals.degree_match_score = Rat(1, 3)
    /\ locals.field_match_score = One
    /\ ret.score = Rat(53, 100)

\* The weights in force: those of the config, or 0.5, 0.3 and 0.2.
WeightInForce(k) ==
    IF "none" \in DOMAIN args.config
    THEN CASE k = "skill_weight" -> Rat(5, 10)
           [] k = "experience_weight" -> Rat(3, 10)
           [] k = "education_weight" -> Rat(2, 10)
    ELSE args.config[k]

\* The weighted average of the three sub-scores of the report.
WeightedAverage ==
    RDiv(RAdd(RAdd(RMul(ret.skill_analysis.score,
                        WeightInForce("skill_weight")),
                   RMul(ret.experience_analysis.score,
                        WeightInForce("experience_weight"))),
              RMul(ret.education_analysis.score,
                   WeightInForce("education_weight"))),
         RAdd(RAdd(WeightInForce("skill_weight"),
                   WeightInForce("experience_weight")),
              WeightInForce("education_weight")))

AllSubScoresOne ==
    /\ ret.skill_analysis.score = One
    /\ ret.experience_analysis.score = One
    /\ ret.education_analysis.score = One

\* C9 as the spec states it: overall_score is exactly the weighted
\* average of the three sub-scores, normalised by the sum of the weights.
C9_ExactWeightedAverage ==
    Returned =>
        /\ ret.overall_score = WeightedAverage
        /\ AllSubScoresOne => ret.overall_score = One

\* C9: overall_score is the weighted average of the three sub-scores,
\* normalised by the sum of the weights and rounded to two decimals; when
\* the three sub-scores are 1.0 it is 1.0 whatever the weights.
C9_RoundedWeightedAverage ==
    Returned =>
        /\ ret.overall_score \in RoundedTo(WeightedAverage, 2)
        /\ AllSubScoresOne => ret.overall_score = One

\* C9's case: three sub-scores of 1.0 under weights that differ and do
\* not sum to 1.
C9_Witness ==
    /\ Returned
    /\ AllSubScoresOne
    /\ args.config = WeightConfig(Rat(1, 10), Rat(2, 10), Rat(1, 10))
    /\ ret.overall_score = One

\* The tier of the spec for an overall score.
ExpectedTier(score) ==
    IF RLe(Rat(9, 10), score) THEN <<"Excellent Match", "Top 10%">>
    ELSE IF RLe(Rat(8, 10), score) THEN <<"Strong Match", "Top 20%">>
    ELSE IF RLe(Rat(7, 10), score) THEN <<"Good Match", "Top 30%">>
    ELSE IF RLe(Rat(6, 10), score) THEN <<"Fair Match", "Top 40%">>
    ELSE <<"Needs Improvement", "Below Average">>

\* Scenario D: sub-scores 1.0, 0.6 and 1.0 under the default weights.
ScenarioD ==
    /\ Returned
    /\ "none" \in DOMAIN args.config
    /\ ret.skill_analysis.score = One
    /\ ret.experience_analysis.score = Rat(6, 10)
    /\ ret.education_analysis.score = One

\* C10: the ranking and the percentile follow from overall_score by the
\* thresholds 0.9, 0.8, 0.7 and 0.6 and always belong to the same tier;
\* sub-scores 1.0, 0.6 and 1.0 under the default weights give 0.88, Strong
\* Match, Top 20%.
C10_RankingThresholds ==
    /\ Returned =>
          <<ret.ranking, ret.percentile>> = ExpectedTier(ret.overall_score)
    /\ ScenarioD =>
          /\ ret.overall_score = Rat(88, 100)
          /\ ret.ranking = "Strong Match"
          /\ ret.percentile = "Top 20%"

\* C10's case: Scenario D is reached and ranked a strong match.
C10_Witness ==
    /\ ScenarioD
    /\ ret.overall_score = Rat(88, 100)
    /\ ret.ranking = "Strong Match"
    /\ ret.percentile = "Top 20%"

-----------------------------------------------------------------------------
(* The properties of the functions that read a text. *)

\* C14: for every text the resume-side extract_skills_from_text and the
\* job-side extract_skills return the same set of skills: the list the one
\* returns holds the same skills as the list the other returns for the same
\* text, in whatever run of the program.
C14_SameSkillSet ==
    op = "extract_skills" =>
        Range(ret) = Range(extract_skills_from_text(args.text))

\* The job-side extractor found several skills, in another order than the
\* resume-side extractor returns them
C14_Witness ==
    /\ op = "extract_skills"
    /\ Len(ret) >= 2
    /\ ret # extract_skills_from_text(args.text)
    /\ Range(ret) = Range(extract_skills_from_text(args.text))

\* C15: extract_skills is deterministic including the order of its result:
\* the list returned for a text is the list returned for the same text in
\* every run of the program, whatever its hash seed.
C15_SameListEveryRun ==
    op = "extract_skills" =>
        \A seed \in HashSeeds : extract_skills(args.text, seed) = ret

\* The six signs of priority of a skill in a text, as the specification
\* lists them
C20_Indicated(skill, text) ==
    LET chunks == Flat(LowerText(text))
        blank == FindBlankLine(chunks, 1)
    IN  \/ CountPhrase(skill, chunks) > 1
        \/ /\ blank <= Len(chunks)
           /\ PhraseIn(skill, SubSeq(chunks, 1, blank - 1))
        \/ /\ blank > Len(chunks)
           /\ PhraseIn(skill, Prefix(chunks, 500))
        \/ PhraseIn(skill, requirements_section(LowerText(text)))
        \/ WordSearch(Upper(skill), Flat(text))
        \/ \E i \in DOMAIN chunks :
              PhraseMatchAt(skill, chunks, i,
                            "marked", "markedend", "markedstart")
        \/ Emphasised(skill, chunks)

\* The place of the first copy of an item in a list
C20_FirstIndex(list, item) ==
    CHOOSE i \in DOMAIN list :
        list[i] = item /\ \A j \in 1..(i - 1) : list[j] # item

\* C20: extract_priority_skills returns exactly the members of `skills` for
\* which one of the six signs holds (more than one occurrence in the text,
\* in the first paragraph or the first 500 characters, in the requirements
\* section, in upper case, between asterisks or underscores, after an
\* intensifier or after experience / proficient with / in), each once and
\* in the order of `skills`.
C20_PrioritySkillsAreTheIndicated ==
    op = "extract_priority_skills" =>
        /\ Range(ret) = {skill \in Range(args.skills) :
                            C20_Indicated(skill, args.text)}
        /\ \A i, j \in DOMAIN ret :
              i < j => /\ ret[i] # ret[j]
                       /\ C20_FirstIndex(args.skills, ret[i])
                            < C20_FirstIndex(args.skills, ret[j])

\* Of two different skills given, the first shows no sign of priority in
\* the text and the second, found once and outside the first paragraph,
\* is returned
C20_Witness ==
    /\ op = "extract_priority_skills"
    /\ Len(args.skills) = 2
    /\ Len(args.text) = 2
    /\ ret = <<args.skills[2]>>
    /\ args.skills[1] # args.skills[2]
    /\ CountPhrase(args.skills[1], Flat(LowerText(args.text))) = 1
    /\ CountPhrase(args.skills[2], Flat(LowerText(args.text))) = 1
    /\ ~PhraseIn(args.skills[2], LowerText(args.text)[1])

\* The responsibilities section of the text of the call, and whether it is
\* without any of the bullet delimiters
C12_Section == resp_section(Flat(LowerText(args.text)))
C12_NoDelimiter ==
    \A i \in DOMAIN bullet_patterns :
        FirstChunk(C12_Section, "search", {bullet_patterns[i]})
            > Len(C12_Section)

\* C12 as stated: extract_responsibilities returns at most 10 items, and
\* the items of a section without bullet delimiter are the sentences of
\* that section.
C12_ItemsAreTheSentences ==
    op = "extract_responsibilities" =>
        /\ Len(ret) <= 10
        /\ C12_NoDelimiter => ret = Sentences(C12_Section)

\* C12, amended: extract_responsibilities returns at most 10 items, and the
\* items of a section without bullet delimiter are the first ten of the
\* sentences of that section that are longer than 15 characters.
C12_ItemsAreTheLongSentences ==
    op = "extract_responsibilities" =>
        /\ Len(ret) <= 10
        /\ C12_NoDelimiter =>
              LET long == SelectSeq(Sentences(C12_Section),
                                    LAMBDA sentence : ItemLen(sentence) > 15)
              IN  /\ Len(ret) = IF Len(long) < 10 THEN Len(long) ELSE 10
                  /\ \A i \in DOMAIN ret : ret[i] = long[i]

\* A section without bullet delimiter, one of whose sentences is returned
\* and another, a short one, is not
C12_Witness ==
    /\ op = "extract_responsibilities"
    /\ C12_NoDelimiter
    /\ Len(ret) >= 1
    /\ \E i \in DOMAIN Sentences(C12_Section) :
          /\ ItemLen(Sentences(C12_Section)[i]) <= 15
          /\ \A j \in DOMAIN ret : ret[j] # Sentences(C12_Section)[i]

-----------------------------------------------------------------------------
(* The properties of the keyword density. *)

\* The words of the text of the call, the occurrences of the keywords in
\* them and the share of the sections that hold a keyword
C13_Words == Flatten(args.resume_text)
C13_Keywords == {Lower(args.job_keywords[i]) : i \in DOMAIN args.job_keywords}
C13_Occurrences ==
    Cardinality({ki \in (DOMAIN args.job_keywords) \X (DOMAIN C13_Words) :
        /\ Lower(C13_Words[ki[2]]) = Lower(args.job_keywords[ki[1]])
        /\ \A j \in 1..(ki[1] - 1) :
              args.job_keywords[j] # args.job_keywords[ki[1]]})
C13_Distribution ==
    Rat(Cardinality({s \in DOMAIN args.resume_text :
            \E w \in Range(args.resume_text[s]) : Lower(w) \in C13_Keywords}),
        Len(args.resume_text))
C13_Formula ==
    RAdd(RMul(Rat(7, 10),
              RMin(RMul(Rat(C13_Occurrences, Len(C13_Words)), Num(50)), One)),
         RMul(Rat(3, 10), C13_Distribution))
C13_NothingToCount ==
    args.resume_text = <<>> \/ args.job_keywords = <<>> \/ C13_Words = <<>>

\* C13 as stated: calculate_keyword_density returns the score 0 for an
\* empty document, a document without words or an empty keyword list, never
\* a negative score, and else the score
\* 0.7 * min(density * 50, 1) + 0.3 * distribution.
C13_ExactDensityScore ==
    op = "calculate_keyword_density" =>
        /\ RLe(Zero, ret.score)
        /\ ret.score = IF C13_NothingToCount THEN Zero ELSE C13_Formula

\* C13, amended: the score is 0 when there is nothing to count, is never
\* negative nor above 1, and else is
\* 0.7 * min(density * 50, 1) + 0.3 * distribution rounded to two decimals.
C13_RoundedDensityScore ==
    op = "calculate_keyword_density" =>
        /\ RLe(Zero, ret.score) /\ RLe(ret.score, One)
        /\ IF C13_NothingToCount THEN ret.score = Zero
           ELSE ret.score \in RoundedTo(C13_Formula, 2)

\* The keywords occur more often than the text has words, in one section
\* of four: the density counts for 0.7 and the score 0.775 is rounded
C13_Witness ==
    /\ op = "calculate_keyword_density"
    /\ C13_Occurrences > Len(C13_Words)
    /\ C13_Formula = Rat(775, 1000)
    /\ ret.score # C13_Formula

-----------------------------------------------------------------------------
(* The properties of the configuration. *)

\* C16: every option of the configuration has a default; calculate_match_score
\* called without a configuration, or with one that omits some of
\* skill_weight, priority_skill_bonus, experience_weight and
\* education_weight, raises no exception and returns a report.
C16_OmittedOptionsTakeDefaults ==
    (/\ op = "calculate_match_score"
     /\ \E option \in {"skill_weight", "priority_skill_bonus",
                       "experience_weight", "education_weight"} :
           option \notin DOMAIN args.config)
        => /\ "raised" \notin DOMAIN ret
           /\ "overall_score" \in DOMAIN ret

-----------------------------------------------------------------------------
(* The properties of the functions that bring a field into a list.         *)

\* A value that is not a list, as the only item of a list: a dict is an
\* entry of the list, a number or a string an item that is not a record.
C17_ListOf(value) ==
    <<IF value.type = "dict" THEN value.entry ELSE [kind |-> "other"]>>

\* C17: A function of the scorer that extracts from the resume's education
\* or experience and receives a dict or a number where a list was expected
\* returns what it returns for the list with that value as its only item.
C17_ValueIsTakenAsList ==
    /\ (/\ op = "extract_degrees_from_resume"
        /\ args.value.type \in {"dict", "other"})
       => ret = extract_degrees_from_resume(C17_ListOf(args.value))
    /\ (/\ op = "extract_fields_from_resume"
        /\ args.value.type \in {"dict", "other"})
       => ret = extract_fields_from_resume(C17_ListOf(args.value))
    /\ (/\ op = "calculate_total_experience_years"
        /\ args.value.type \in {"dict", "other"})
       => ret \in RoundedTo(SumYears(C17_ListOf(args.value)), 1)

-----------------------------------------------------------------------------
(* The properties of the flow from the text of a job to the report.        *)

\* C11: For an empty job description the analysis is a record with empty
\* collections, and the comparison with a resume ends in a report with
\* scores, none of the two in an error or without a result.
C11_EmptyTextGivesRecord ==
    (op = "analyze_resume" /\ args.job_description_text = <<>>)
        => /\ locals.job_description # None
           /\ locals.job_description.skills = <<>>
           /\ locals.job_description.priority_skills = <<>>
           /\ locals.job_description.responsibilities = <<>>
           /\ ret # None
           /\ "overall_score" \in DOMAIN ret

C19_DegreeStated ==
    /\ locals.job_description # None
    /\ \/ locals.job_description.education.required # None
       \/ locals.job_description.education.preferred # None

\* C19: In the flow from the text of a job to the report, a job text that
\* states no degree and no field gives the education score 1, and a job
\* text that requires the degree the candidate holds gives the degree
\* score (degree_match_score of calculate_education_match) 1.
C19_EducationRecordIsScored ==
    (op = "analyze_resume" /\ locals.job_description # None)
        => /\ (/\ ~C19_DegreeStated
               /\ locals.job_description.education.fields = <<>>)
              => ret.education_analysis.score = One
           /\ (/\ locals.job_description.education.required = Some("master")
               /\ "master" \in extract_degrees_from_resume(
                                  args.resume_data.education))
              => EducationLocals(args.resume_data.education,
                                 locals.job_description.education
                                ).degree_match_score = One

-----------------------------------------------------------------------------
(* The properties of the requests that run at the same time.               *)

\* What text_analysis.extract_skills returns when it runs alone
C18_Alone(text, custom_skills) ==
    SelectSeq(ALL_SKILLS \o [i \in DOMAIN custom_skills |->
                                Lower(custom_skills[i])],
              LAMBDA skill : \E i \in DOMAIN text : Lower(text[i]) = skill)

\* C18: However the calls of text_analysis.extract_skills of independent
\* requests interleave, with custom_skills or without, the shared list
\* ALL_SKILLS stays as it was made and each call returns what it returns
\* when it runs alone.
C18_SharedListNeverMutated ==
    /\ heap[<<"ALL_SKILLS", 0>>] = ALL_SKILLS
    /\ \A r \in Requests :
          requests[r].pc = "return"
              => requests[r].found_skills =
                    C18_Alone(requests[r].text, requests[r].custom_skills)

\* Two requests at their return: one has searched for a custom skill, the
\* other, without custom skills, a text that names this skill.
C18_Witness ==
    \E r \in Requests, q \in Requests :
        /\ requests[r].pc = "return"
        /\ requests[r].custom_skills = <<"nosql">>
        /\ requests[q].pc = "return"
        /\ requests[q].custom_skills = None
        /\ requests[q].text = <<"nosql", "sql">>
        /\ requests[q].found_skills = <<"sql">>

-----------------------------------------------------------------------------
(* The properties of the priority skills.                                  *)

\* The priority skills are among the job's skills
C29_PriorityAmongJobSkills ==
    /\ op = "calculate_skill_match"
    /\ args.job_skills # <<>>
    /\ Range(args.priority_skills) \subseteq Range(args.job_skills)

\* C29: With the priority skills among the job's skills and a priority
\* bonus of at least 1, a result in which every job skill is matched (no
\* missing skill, match_percentage 100) has the score 1.
C29_AllMatchedScoresOne ==
    (/\ C29_PriorityAmongJobSkills
     /\ RLe(One, DictGet(args.config, "priority_skill_bonus", Num(2)))
     /\ ret.missing_skills = <<>>
     /\ ret.match_percentage = Num(100))
        => ret.score = One

\* C30: With the priority skills among the job's skills, priority_matched
\* and priority_missing partition priority_skills, every skill of
\* priority_matched is in matched_skills and every skill of
\* priority_missing is in missing_skills.
C30_PriorityBreakdownConsistent ==
    C29_PriorityAmongJobSkills
        => /\ \A s \in Range(args.priority_skills) :
                 Count(args.priority_skills, s)
                    = Count(ret.priority_matched, s)
                        + Count(ret.priority_missing, s)
           /\ Range(ret.priority_matched) \cap Range(ret.priority_missing)
                 = {}
           /\ Range(ret.priority_matched) \subseteq Range(ret.matched_skills)
           /\ Range(ret.priority_missing) \subseteq Range(ret.missing_skills)

-----------------------------------------------------------------------------
(* The score of the fields of study. *)

\* Some candidate field matches some required field: the two are equal,
\* the table of related fields relates them by at least 0.7 in one of the
\* two directions, or one is contained in the other.
C28_SomeFieldMatches ==
    \E res_field \in extract_fields_from_resume(args.resume_education),
       req_field \in extract_field_requirements(args.job_education) :
        \/ res_field = req_field
        \/ /\ related_fields(req_field, res_field) # None
           /\ RLe(Rat(7, 10), related_fields(req_field, res_field)[1])
        \/ /\ related_fields(res_field, req_field) # None
           /\ RLe(Rat(7, 10), related_fields(res_field, req_field)[1])
        \/ FieldIsSubstring(req_field, res_field)
        \/ FieldIsSubstring(res_field, req_field)

C28_Scored ==
    /\ op = "calculate_education_match"
    /\ ~FalsyEducation(args.job_education)

\* C28: in calculate_education_match the score of the fields is 1.0 when
\* the job names no field or some candidate field matches some required
\* field with similarity of at least 0.7 (equal, related by the table in
\* either direction, or one contained in the other), and otherwise it is
\* 0.0; the returned score is 0.7 times the degree score plus 0.3 times it.
C28_FieldScoreOneOrZero ==
    C28_Scored =>
        LET field_score ==
                IF \/ extract_field_requirements(args.job_education) = {}
                   \/ C28_SomeFieldMatches
                THEN One ELSE Zero
            combined == RAdd(RMul(Rat(7, 10), locals.degree_match_score),
                             RMul(Rat(3, 10), field_score))
        IN  /\ locals.field_match_score = field_score
            /\ ret.score \in RoundedTo(combined, 2)

\* C28 as the specification states it: when fields are required and none
\* matches, the score of the fields is the default low similarity 0.2.
C28_FieldScoreOneOrDefault ==
    C28_Scored =>
        locals.field_match_score =
            IF \/ extract_field_requirements(args.job_education) = {}
               \/ C28_SomeFieldMatches
            THEN One ELSE Rat(2, 10)

\* A candidate in data science for a job in statistics: the fields are
\* related by the table read from the candidate's field.
C28_Witness ==
    /\ C28_Scored
    /\ extract_field_requirements(args.job_education) = {"statistics"}
    /\ extract_fields_from_resume(args.resume_education) = {"data science"}
    /\ locals.field_match_score = One

\* Fields are required and the candidate's field matches none of them.
C28_WitnessNoMatch ==
    /\ C28_Scored
    /\ extract_field_requirements(args.job_education) # {}
    /\ extract_fields_from_resume(args.resume_education) # {}
    /\ ~C28_SomeFieldMatches
    /\ locals.field_match_score = Zero

-----------------------------------------------------------------------------
(* The properties of the suggestions. *)

\* The report of a call that raised nothing, with both years in it.
C27_YearsReported ==
    /\ op = "calculate_match_score"
    /\ "raised" \notin DOMAIN ret
    /\ ret.experience_analysis.years_required # None
    /\ ret.experience_analysis.years_matched # None

\* C27: the suggestions hold an experience-gap callout whenever the years
\* required exceed the years matched, a candidate with 0 years included:
\* "highlight relevant projects" when the gap is at most 2 years, "consider
\* roles requiring less experience" when it is more, and none when the
\* requirement is met; the callout comes after the callouts on missing
\* skills and before the one on education.
C27_GapGivesCallout ==
    C27_YearsReported =>
        LET required == Num(ret.experience_analysis.years_required[1])
            matched == ret.experience_analysis.years_matched[1]
            s == ret.improvement_suggestions
            gap == {"Highlight relevant projects",
                    "Consider roles requiring less experience"}
            before == {"Add missing skills", "Add key missing skills",
                       "Focus on adding these priority skills",
                       "Work on developing missing skills"}
        IN  /\ RLt(matched, required)
                => Range(s) \cap gap =
                    IF RLe(RSub(required, matched), Num(2))
                    THEN {"Highlight relevant projects"}
                    ELSE {"Consider roles requiring less experience"}
            /\ RLe(required, matched) => Range(s) \cap gap = {}
            /\ \A i, j \in 1..Len(s) :
                /\ (s[i] \in gap /\ s[j] \in before) => j < i
                /\ (s[i] \in gap /\ s[j] = "The job requires") => i < j

-----------------------------------------------------------------------------
(* The years required by a range. *)

\* The text the scorer reads the years from: the requirement itself when it
\* is a string, its description when it is the record of extract_experience.
C23_TextOf(job_experience) ==
    IF job_experience.type = "str" THEN job_experience.text
    ELSE job_experience.description

\* The call scores a requirement whose text begins with a range "X-Y years",
\* X below Y.
C23_RangeRequired ==
    /\ op = "calculate_experience_match"
    /\ \/ args.job_experience.type = "str"
       \/ /\ args.job_experience.type = "dict"
          /\ "description" \in args.job_experience.keys
    /\ LET txt == C23_TextOf(args.job_experience)
       IN  /\ NumAt(txt, 1) /\ WordAt(txt, 2, "-") /\ NumAt(txt, 3)
           /\ WordAt(txt, 4, "years")
           /\ txt[1][2] < txt[3][2]

\* C23: for a range "X-Y years", X below Y, the years required that the
\* scorer uses (years_required of calculate_experience_match) are the lower
\* bound X, for the text itself and for the record of extract_experience
\* whose description holds it.
C23_RangeRequiresLowerBound ==
    C23_RangeRequired
        => ret.years_required
            = Some(C23_TextOf(args.job_experience)[1][2])

-----------------------------------------------------------------------------
(* The requirement without a number of years. *)

\* The call scores a requirement that is there and whose text holds no
\* number at all.
C22_NoYearCount ==
    /\ op = "calculate_experience_match"
    /\ ~Falsy(args.job_experience)
    /\ \/ args.job_experience.type = "str"
       \/ /\ args.job_experience.type = "dict"
          /\ "description" \in args.job_experience.keys
    /\ \A i \in DOMAIN C23_TextOf(args.job_experience) :
            ~NumAt(C23_TextOf(args.job_experience), i)

\* C22: when the job's experience requirement holds no explicit number of
\* years, calculate_experience_match falls back to the seniority heuristic:
\* years_required and years_matched are None and the score is 1.0 when the
\* candidate's seniority is at least the job's, else their quotient.
C22_NoYearCountUsesSeniority ==
    C22_NoYearCount
        => /\ ret.years_required = None
           /\ ret.years_matched = None
           /\ \E t \in TieBreak :
                ret.score = match_seniority_level(args.resume_experience,
                                                  args.job_experience, t)

-----------------------------------------------------------------------------
(* The level of experience a job description asks for. *)

\* The tables of level_keywords with a keyword somewhere in the text
C21_TablesFound ==
    {l \in DOMAIN level_keywords :
        \E keyword \in level_keywords[l][2] :
            PhraseIn(keyword, Flat(LowerText(args.text)))}

-----------------------------------------------------------------------------
(* The section of the responsibilities. *)

\* The call found a keyword of resp_keywords in the text.
C24_SectionFound ==
    /\ op = "extract_responsibilities"
    /\ FirstFound(resp_keywords, Flat(LowerText(args.text))) # None

\* C24: the section of the responsibilities starts at the first keyword of
\* resp_keywords and ends at whichever comes first after it, the next blank
\* line or the nearest known section header; it reaches to the end of the
\* text only when there is neither.
C24_SectionEndsAtNearest ==
    C24_SectionFound =>
        LET chunks == Flat(LowerText(args.text))
            keyword == FirstFound(resp_keywords, chunks)[1]
            start == Find(keyword, chunks)
            ends == {FindBlankLine(chunks, start)}
                    \cup {i \in (start + Len(Parts(keyword)))..Len(chunks) :
                            \E h \in Range(next_headers) :
                                PhraseAt(h, chunks, i)}
            end == CHOOSE e \in ends : \A f \in ends : e <= f
        IN  locals.resp_section = SubSeq(chunks, start, end - 1)

-----------------------------------------------------------------------------
(* The items of the responsibilities. *)

\* The bullet patterns that find an item in the section
C25_PatternsFound ==
    {i \in DOMAIN bullet_patterns :
        FindAll(bullet_patterns[i], locals.resp_section) # <<>>}

\* What the first of these patterns finds
C25_Found ==
    IF C25_PatternsFound = {} THEN <<>>
    ELSE FindAll(bullet_patterns[CHOOSE i \in C25_PatternsFound :
                    \A j \in C25_PatternsFound : i <= j],
                 locals.resp_section)

\* The items of a section: of what the first pattern finds those of at
\* least `bullet` characters and, when these are none, the sentences of at
\* least `sentence` characters
C25_Items(bullet, sentence) ==
    LET bullets == SelectSeq(C25_Found,
                             LAMBDA item : ItemLen(item) >= bullet)
    IN  IF bullets # <<>> THEN bullets
        ELSE SelectSeq(Sentences(locals.resp_section),
                       LAMBDA s : ItemLen(s) >= sentence)

C25_SectionParsed ==
    op = "extract_responsibilities" /\ locals.resp_section # <<>>

\* C25, amended: the first bullet pattern (in the order glyph, dash,
\* asterisk, numbered, lettered) that finds any item is the only one used;
\* an item it finds is dropped exactly when its cleaned length is at most 10
\* characters, and in the sentence fallback a sentence is kept exactly when
\* its length is more than 15 characters.
C25_ItemsOver10SentencesOver15 ==
    C25_SectionParsed => ret = Limit(C25_Items(11, 16))

\* C25 as stated: an item is dropped exactly when its cleaned length is under
\* 10 characters and a sentence is kept exactly when its length is at least
\* 15 characters.
C25_ItemsFrom10SentencesFrom15 ==
    C25_SectionParsed => ret = Limit(C25_Items(10, 15))

\* The dash pattern, the first that finds any item in a section that also
\* holds an asterisk, finds an item of exactly 10 characters: the item is
\* not returned, longer items are.
C25_Witness ==
    /\ C25_SectionParsed
    /\ C25_PatternsFound = {2, 3}
    /\ ItemLen(C25_Found[1]) = 10
    /\ ret # <<>>
    /\ \A i \in DOMAIN ret : ret[i] # C25_Found[1]

\* A section without bullets holds a sentence of exactly 15 characters: the
\* sentence is not returned, longer ones are.
C25_WitnessSentence ==
    /\ C25_SectionParsed
    /\ C25_PatternsFound = {}
    /\ ret # <<>>
    /\ \E i \in DOMAIN Sentences(locals.resp_section) :
          /\ ItemLen(Sentences(locals.resp_section)[i]) = 15
          /\ \A j \in DOMAIN ret : ret[j] # Sentences(locals.resp_section)[i]

-----------------------------------------------------------------------------
(* The years of a current job. *)

\* C26: for every entry of extract_experience_from_text whose end date is
\* Present or Current, duration and years are the current calendar year
\* minus the start year, whether the start is a year alone ("2019 -
\* Present") or a month and a year ("Jan 2019 - Present"); years are never
\* negative.
C26_CurrentJobCountsYears ==
    op = "extract_experience_from_text" =>
        /\ RLe(Zero, ret.years)
        /\ (/\ ret.end_date # None
            /\ ret.end_date[1] \in {"Present", "Current"})
           => /\ ret.duration = Some(args.current_year - args.context.year)
              /\ ret.years = Num(args.current_year - args.context.year)

=============================================================================
